---- MODULE Spec2Model ----
(***************************************************************************)
(* Server-side protocol engine of onlinetalk: the session registry, the    *)
(* authenticated dispatcher, the message store with its offline spool and  *)
(* the fanout of deliveries to connection write queues.                    *)
(*                                                                         *)
(* One action is one run of a reactor handler (the reactor is single       *)
(* threaded, handlers run to completion).  The write queue of a connection *)
(* is kept at packet granularity: an element is one encoded frame.         *)
(***************************************************************************)
EXTENDS Integers, Sequences, FiniteSets, TLC

VARIABLES
  config,           \* ServerConfig: history_page_size, max_clients, file_chunk_size
  sessions_,        \* SessionManager::sessions_   fd -> Session
  user_to_fd_,      \* SessionManager::user_to_fd_ user_id -> fd
  connections_,     \* TcpServer::connections_     fd -> pending frames of the write buffer
  users,            \* table users                 user_id -> row
  groups,           \* table groups                group_id -> row
  group_members,    \* table group_members         <<group_id, user_id>> -> role
  messages,         \* table messages              message_id -> row
  msg_seq,          \* sqlite_sequence of messages (AUTOINCREMENT)
  message_targets,  \* table message_targets       <<message_id, user_id>> -> delivered_at set?
  files,            \* table files                 file_id -> row
  file_uploads,     \* table file_uploads          file_id -> row
  file_targets,     \* table file_targets          <<file_id, user_id>> -> delivered_at set?
  id_seq,           \* number of ids generateId() has handed out
  disk,             \* the data directory:         path -> file contents (sequence of bytes)
  last,             \* the event the reactor processed last and how it was answered
  dlog,             \* fd -> message ids of the MessageDeliver frames enqueued on the
                    \* connection since the login that opened its current session
  acked,            \* file_id -> size: the uploaded_size the last successful
                    \* appendChunk on the file returned (0 from createUpload on);
                    \* dropped: a connection of the uploader was closed while the
                    \* file had its file_uploads row, and the uploader has sent no
                    \* request for the file since
  connection,       \* one Connection with the bytes of its write buffer:
                    \* write_buffer_, write_offset_, and what was queued on it
                    \* and handed to its socket since it was accepted
  client,           \* the FileTransferManager of one client program: its
                    \* download task and its upload task
  rbuf,             \* Connection::read_buffer_      fd -> bytes received and not consumed
  epoll_out,        \* the epoll set                 fd -> EPOLLOUT is among the events armed
  reading           \* where the reactor is: 0 in epoll_wait, fd in the loop of
                    \* processPackets for the connection fd, -1 after run() was left

store == <<users, groups, group_members, messages, msg_seq, message_targets,
           files, file_uploads, file_targets, id_seq>>
vars == <<config, sessions_, user_to_fd_, connections_, users, groups, group_members,
          messages, msg_seq, message_targets, files, file_uploads, file_targets,
          id_seq, disk, last, dlog, acked, rbuf, epoll_out, reading, client, connection>>

(***************************************************************************)
(* Bounds of the model.                                                    *)
(***************************************************************************)
MaxFds == 2          \* socket descriptors the kernel hands out
MaxMsgs == 2         \* rows the messages table may receive
MaxFanoutMsgs == 1   \* rows it may receive while three users share the group
MaxDrainFiles == 1   \* uploads created while the drains are under test
MaxPending == 0      \* a handler runs while every write queue holds at most this many frames
MaxPageSize == 2     \* largest history_page_size tried
MaxFileSize == 2     \* largest file_size offered
MaxUploads == 1      \* files offered in the runs of SpecFile
MaxGroups == 1       \* groups created in the runs of SpecGroup
MaxChatMsgs == 2     \* rows the messages table may receive in the runs of SpecChat
HeaderCut == 10      \* bytes of a header recv may return before the rest of it
MaxStoredSize == 3   \* largest size of the file that is downloaded
MaxChunkSize == 2    \* largest file_chunk_size of the downloads
MaxDrops == 2        \* connections the uploading client loses
MaxWriteLen == 2     \* bytes of the longest string queued on the byte-level connection
MaxQueued == 4       \* bytes queued on the byte-level connection in all

UserSeq == <<"alice", "bob", "carol">>
Users == {UserSeq[i] : i \in 1..Len(UserSeq)}
NoUser == ""
Fds == 1..MaxFds
IdSeq == <<"id1", "id2">>           \* what generateId() returns, in the order of the calls
Ids == {IdSeq[i] : i \in 1..Len(IdSeq)}
RequestIds == {7}
Bytes == {"x", "y"}
\* The bytes of the file that is uploaded.
FileContent == [i \in 1..MaxFileSize |-> IF i = 1 THEN "x" ELSE "y"]

Nick(u) == u                       \* the nickname a user registers with
Min(S) == CHOOSE m \in S : \A n \in S : m <= n
Max(S) == CHOOSE m \in S : \A n \in S : m >= n

\* Ascending sequence of a finite set of integers.
RECURSIVE SortedSeq(_)
SortedSeq(S) == IF S = {} THEN <<>> ELSE <<Min(S)>> \o SortedSeq(S \ {Min(S)})

\* The members of a set of users in the order of UserSeq.
UsersInOrder(S) ==
  LET RECURSIVE go(_)
      go(i) == IF i > Len(UserSeq) THEN <<>>
               ELSE (IF UserSeq[i] \in S THEN <<UserSeq[i]>> ELSE <<>>) \o go(i + 1)
  IN go(1)

Range(s) == {s[i] : i \in DOMAIN s}

(***************************************************************************)
(* Frames.  buildPacket puts a type, a request id and a metadata object in *)
(* a frame; the fields of the metadata the properties look at are kept.    *)
(***************************************************************************)
buildPacket(type, request_id, meta) ==
  [type |-> type, request_id |-> request_id, meta |-> meta]

\* Connection::queueWrite: append the frame to the write buffer.
queueWrite(conns, fd, packet) ==
  [conns EXCEPT ![fd] = Append(@, packet)]

\* TcpServer::sendResponse: status, code, message, then the extra fields.
ResponseMeta(status, code, message, extra) ==
  [status |-> status, code |-> code, message |-> message, extra |-> extra]

sendResponse(conns, fd, type, request_id, status, code, message, extra) ==
  queueWrite(conns, fd, buildPacket(type, request_id, ResponseMeta(status, code, message, extra)))

\* TcpServer::sendAuthError: an AuthError frame with code and message.
sendAuthError(conns, fd, request_id, code, message) ==
  queueWrite(conns, fd,
             buildPacket("AuthError", request_id, [code |-> code, message |-> message]))

(***************************************************************************)
(* SessionManager.                                                         *)
(***************************************************************************)
NewSession(fd) == [fd |-> fd, logged_in |-> FALSE, user_id |-> NoUser, nickname |-> ""]

\* A map with no key.
EmptyMap == <<>>

\* Removing one key of a map.
Erase(f, k) == [x \in DOMAIN f \ {k} |-> f[x]]
\* operator[] of a map: insert or overwrite.
Put(f, k, v) == [x \in DOMAIN f \cup {k} |-> IF x = k THEN v ELSE f[x]]

\* SessionManager::addConnection: emplace keeps an existing entry.
addConnection(sess, fd) ==
  IF fd \in DOMAIN sess THEN sess ELSE Put(sess, fd, NewSession(fd))

\* SessionManager::removeConnection, as the pair of maps it leaves.
removeConnection(sess, u2f, fd) ==
  IF fd \notin DOMAIN sess
    THEN [sessions |-> sess, user_to_fd |-> u2f]
    ELSE [sessions |-> Erase(sess, fd),
          user_to_fd |-> IF sess[fd].logged_in /\ sess[fd].user_id # NoUser
                           THEN Erase(u2f, sess[fd].user_id)
                           ELSE u2f]

\* SessionManager::login with the guard on user_to_fd dropped.
loginNoGuard(sess, u2f, fd, user_id, nickname) ==
  IF fd \notin DOMAIN sess
    THEN [ok |-> FALSE, error |-> "session not found", sessions |-> sess, user_to_fd |-> u2f]
    ELSE [ok |-> TRUE, error |-> "",
          sessions |-> [sess EXCEPT ![fd] = [fd |-> fd, logged_in |-> TRUE,
                                             user_id |-> user_id, nickname |-> nickname]],
          user_to_fd |-> Put(u2f, user_id, fd)]

\* SessionManager::login.
login(sess, u2f, fd, user_id, nickname) ==
  IF fd \notin DOMAIN sess
    THEN [ok |-> FALSE, error |-> "session not found", sessions |-> sess, user_to_fd |-> u2f]
  ELSE IF user_id \in DOMAIN u2f /\ u2f[user_id] # fd
    THEN [ok |-> FALSE, error |-> "user already online", sessions |-> sess, user_to_fd |-> u2f]
  ELSE [ok |-> TRUE, error |-> "",
        sessions |-> [sess EXCEPT ![fd] = [fd |-> fd, logged_in |-> TRUE,
                                           user_id |-> user_id, nickname |-> nickname]],
        user_to_fd |-> Put(u2f, user_id, fd)]

\* SessionManager::isLoggedIn.
isLoggedIn(sess, fd) == fd \in DOMAIN sess /\ sess[fd].logged_in

\* SessionManager::onlineUsers: one entry per key of user_to_fd whose fd has a
\* session, carrying that session's user_id and nickname.
onlineUsers(sess, u2f) ==
  LET keys == UsersInOrder({u \in DOMAIN u2f : u2f[u] \in DOMAIN sess})
  IN [i \in 1..Len(keys) |->
        [user_id |-> sess[u2f[keys[i]]].user_id, nickname |-> sess[u2f[keys[i]]].nickname]]

\* SessionManager::tryGetFd: the fd user_to_fd holds for the user, 0 for none.
tryGetFd(u2f, user_id) == IF user_id \in DOMAIN u2f THEN u2f[user_id] ELSE 0

(***************************************************************************)
(* AuthService.  A password hash is kept as the pair the verifier checks.  *)
(***************************************************************************)
hashPassword(password) == <<"bcrypt", password>>
verifyPassword(password, hash) == hashPassword(password) = hash

\* AuthService::userExists.
userExists(tbl, user_id) == user_id \in DOMAIN tbl

\* AuthService::registerUser.
registerUser(tbl, user_id, nickname, password) ==
  IF user_id = "" \/ nickname = "" \/ password = ""
    THEN [ok |-> FALSE, error |-> "user_id, nickname, password are required", users |-> tbl]
  ELSE IF userExists(tbl, user_id)
    THEN [ok |-> FALSE, error |-> "user already exists", users |-> tbl]
  ELSE [ok |-> TRUE, error |-> "",
        users |-> Put(tbl, user_id, [nickname |-> nickname,
                                     password_hash |-> hashPassword(password)])]

\* AuthService::loginUser.
loginUser(tbl, user_id, password) ==
  IF user_id \notin DOMAIN tbl
    THEN [ok |-> FALSE, error |-> "user not found", user_id |-> NoUser, nickname |-> ""]
  ELSE IF ~verifyPassword(password, tbl[user_id].password_hash)
    THEN [ok |-> FALSE, error |-> "password mismatch", user_id |-> NoUser, nickname |-> ""]
  ELSE [ok |-> TRUE, error |-> "", user_id |-> user_id, nickname |-> tbl[user_id].nickname]

(***************************************************************************)
(* MessageService.                                                         *)
(***************************************************************************)
\* The rows a transaction of storeMessage has written when it stops after
\* inserting the message row and the first n targets.
StoreRows(msgs, seq, mt, input, recipients, n) ==
  [messages |-> Put(msgs, seq + 1, input),
   msg_seq |-> seq + 1,
   message_targets |->
     [k \in DOMAIN mt \cup {<<seq + 1, recipients[i]>> : i \in 1..n} |->
        IF k \in DOMAIN mt THEN mt[k] ELSE FALSE]]

\* The first position of a recipient list that repeats an earlier entry
\* (the PRIMARY KEY of message_targets rejects it), 0 when there is none.
FirstDuplicate(recipients) ==
  LET dups == {i \in 1..Len(recipients) : \E j \in 1..(i - 1) : recipients[j] = recipients[i]}
  IN IF dups = {} THEN 0 ELSE Min(dups)

\* MessageService::storeMessage that commits whatever it has written when an
\* insert of a target fails.
storeMessageNoRollback(msgs, seq, mt, input, recipients, fail_at) ==
  LET dup == FirstDuplicate(recipients)
      stop == IF fail_at > 0 /\ (dup = 0 \/ fail_at <= dup) THEN fail_at
              ELSE IF dup > 0 THEN dup + 1 ELSE 0
  IN IF recipients = <<>>
       THEN [ok |-> FALSE, error |-> "recipients empty", message_id |-> 0,
             messages |-> msgs, msg_seq |-> seq, message_targets |-> mt]
     ELSE IF stop = 1
       THEN [ok |-> FALSE, error |-> "store error", message_id |-> 0,
             messages |-> msgs, msg_seq |-> seq, message_targets |-> mt]
     ELSE IF stop > 1
       THEN [ok |-> FALSE, error |-> "store error", message_id |-> 0] @@
            StoreRows(msgs, seq, mt, input, recipients, stop - 2)
     ELSE [ok |-> TRUE, error |-> "", message_id |-> seq + 1] @@
          StoreRows(msgs, seq, mt, input, recipients, Len(recipients))

\* MessageService::storeMessage.  fail_at = 0: every statement succeeds;
\* fail_at = 1: the insert of the message row fails; fail_at = i + 1: the insert
\* of the i-th target fails.  A repeated recipient fails on its insert.  Any
\* failure rolls the transaction back.
storeMessage(msgs, seq, mt, input, recipients, fail_at) ==
  LET dup == FirstDuplicate(recipients)
      failed == (fail_at > 0 /\ fail_at <= Len(recipients) + 1) \/ dup > 0
  IN IF recipients = <<>>
       THEN [ok |-> FALSE, error |-> "recipients empty", message_id |-> 0,
             messages |-> msgs, msg_seq |-> seq, message_targets |-> mt]
     ELSE IF failed
       THEN [ok |-> FALSE, error |-> "store error", message_id |-> 0,
             messages |-> msgs, msg_seq |-> seq, message_targets |-> mt]
     ELSE [ok |-> TRUE, error |-> "", message_id |-> seq + 1] @@
          StoreRows(msgs, seq, mt, input, recipients, Len(recipients))

\* MessageService::fetchUndelivered: the ids of up to limit messages with an
\* undelivered target row of the user, ascending.
fetchUndelivered(msgs, mt, user_id, limit) ==
  LET ids == {k[1] : k \in {t \in DOMAIN mt : t[2] = user_id /\ ~mt[t]}} \cap DOMAIN msgs
      sorted == SortedSeq(ids)
  IN SubSeq(sorted, 1, Min({limit, Len(sorted)}))

\* MessageService::markDelivered that updates nothing.
markDeliveredNoUpdate(mt, user_id, message_ids, error_in, fails) ==
  IF message_ids = <<>> THEN [ok |-> TRUE, message_targets |-> mt]
  ELSE IF fails \/ error_in # "" THEN [ok |-> FALSE, message_targets |-> mt]
  ELSE [ok |-> TRUE, message_targets |-> mt]

\* MessageService::markDelivered.  error_in is what the caller's error string
\* holds on entry: the loop over the ids is followed by a test of that string.
markDelivered(mt, user_id, message_ids, error_in, fails) ==
  IF message_ids = <<>> THEN [ok |-> TRUE, message_targets |-> mt]
  ELSE IF fails \/ error_in # "" THEN [ok |-> FALSE, message_targets |-> mt]
  ELSE [ok |-> TRUE,
        message_targets |->
          [k \in DOMAIN mt |->
             IF k[2] = user_id /\ k[1] \in Range(message_ids) THEN TRUE ELSE mt[k]]]

(***************************************************************************)
(* GroupService.  A result carries the tables the call leaves.             *)
(***************************************************************************)
GroupOut(ok, error, g, gm, msgs, mt) ==
  [ok |-> ok, error |-> error, groups |-> g, group_members |-> gm,
   messages |-> msgs, message_targets |-> mt]

\* GroupService::getUserRole: the role, "" when the user has no row.
getUserRole(gm, user_id, group_id) ==
  IF <<group_id, user_id>> \in DOMAIN gm THEN gm[<<group_id, user_id>>] ELSE ""

\* GroupService::getGroupMembers, in the order of the primary key.
getGroupMembers(gm, group_id) ==
  (IF <<group_id, NoUser>> \in DOMAIN gm THEN <<NoUser>> ELSE <<>>)
    \o UsersInOrder({u \in Users : <<group_id, u>> \in DOMAIN gm})

\* GroupService::groupExists.
groupExists(g, group_id) == group_id \in DOMAIN g

\* GroupService::isOwnerOrAdmin.
isOwnerOrAdmin(gm, user_id, group_id) ==
  LET role == getUserRole(gm, user_id, group_id)
  IN [ok |-> role \in {"owner", "admin"},
      is_owner |-> role = "owner",
      error |-> IF role = "" THEN "user not in group"
                ELSE IF role \in {"owner", "admin"} THEN "" ELSE "permission denied"]

\* GroupService::createGroup with the id generateId() returned.
createGroup(g, gm, msgs, mt, owner_id, name, group_id) ==
  IF owner_id = "" \/ name = ""
    THEN GroupOut(FALSE, "owner_id and name are required", g, gm, msgs, mt)
  ELSE IF group_id \in DOMAIN g \/ <<group_id, owner_id>> \in DOMAIN gm
    THEN GroupOut(FALSE, "store error", g, gm, msgs, mt)
  ELSE GroupOut(TRUE, "", Put(g, group_id, [name |-> name, owner_id |-> owner_id]),
                Put(gm, <<group_id, owner_id>>, "owner"), msgs, mt)

\* GroupService::joinGroup.
joinGroup(g, gm, msgs, mt, user_id, group_id) ==
  IF ~groupExists(g, group_id) THEN GroupOut(FALSE, "group not found", g, gm, msgs, mt)
  ELSE IF getUserRole(gm, user_id, group_id) # ""
    THEN GroupOut(FALSE, "user already in group", g, gm, msgs, mt)
  ELSE GroupOut(TRUE, "", g, Put(gm, <<group_id, user_id>>, "member"), msgs, mt)

\* GroupService::leaveGroup without the test of the owner role.
leaveGroupOwnerToo(g, gm, msgs, mt, user_id, group_id) ==
  LET role == getUserRole(gm, user_id, group_id)
  IN IF role = "" THEN GroupOut(FALSE, "user not in group", g, gm, msgs, mt)
     ELSE GroupOut(TRUE, "", g, Erase(gm, <<group_id, user_id>>), msgs, mt)

\* GroupService::leaveGroup.
leaveGroup(g, gm, msgs, mt, user_id, group_id) ==
  LET role == getUserRole(gm, user_id, group_id)
  IN IF role = "" THEN GroupOut(FALSE, "user not in group", g, gm, msgs, mt)
     ELSE IF role = "owner" THEN GroupOut(FALSE, "owner cannot leave group", g, gm, msgs, mt)
     ELSE GroupOut(TRUE, "", g, Erase(gm, <<group_id, user_id>>), msgs, mt)

\* GroupService::renameGroup: an UPDATE, which changes the row if there is one.
renameGroup(g, gm, msgs, mt, actor_id, group_id, new_name) ==
  LET perm == isOwnerOrAdmin(gm, actor_id, group_id)
  IN IF ~perm.ok THEN GroupOut(FALSE, perm.error, g, gm, msgs, mt)
     ELSE GroupOut(TRUE, "",
                   IF group_id \in DOMAIN g THEN [g EXCEPT ![group_id].name = new_name] ELSE g,
                   gm, msgs, mt)

\* GroupService::kickUser without the test that stops an admin kicking an admin.
kickUserAdminToo(g, gm, msgs, mt, actor_id, group_id, target_user_id) ==
  LET perm == isOwnerOrAdmin(gm, actor_id, group_id)
      target_role == getUserRole(gm, target_user_id, group_id)
  IN IF ~perm.ok THEN GroupOut(FALSE, perm.error, g, gm, msgs, mt)
     ELSE IF target_role = "" THEN GroupOut(FALSE, "user not in group", g, gm, msgs, mt)
     ELSE IF target_role = "owner" THEN GroupOut(FALSE, "cannot kick owner", g, gm, msgs, mt)
     ELSE GroupOut(TRUE, "", g, Erase(gm, <<group_id, target_user_id>>), msgs, mt)

\* GroupService::kickUser.
kickUser(g, gm, msgs, mt, actor_id, group_id, target_user_id) ==
  LET perm == isOwnerOrAdmin(gm, actor_id, group_id)
      target_role == getUserRole(gm, target_user_id, group_id)
  IN IF ~perm.ok THEN GroupOut(FALSE, perm.error, g, gm, msgs, mt)
     ELSE IF target_role = "" THEN GroupOut(FALSE, "user not in group", g, gm, msgs, mt)
     ELSE IF target_role = "owner" THEN GroupOut(FALSE, "cannot kick owner", g, gm, msgs, mt)
     ELSE IF ~perm.is_owner /\ target_role = "admin"
       THEN GroupOut(FALSE, "admin cannot kick another admin", g, gm, msgs, mt)
     ELSE GroupOut(TRUE, "", g, Erase(gm, <<group_id, target_user_id>>), msgs, mt)

\* What the statements of dissolveGroup's transaction have deleted when the
\* first n of them have run: 1 the targets of the group's messages, 2 those
\* messages, 3 the members, 4 the group row.
DissolveRows(g, gm, msgs, mt, group_id, n) ==
  LET gone == {m \in DOMAIN msgs : msgs[m].conversation_type = "group"
                                    /\ msgs[m].conversation_id = group_id}
  IN [groups |-> IF n >= 4 THEN [x \in DOMAIN g \ {group_id} |-> g[x]] ELSE g,
      group_members |-> IF n >= 3 THEN [k \in {x \in DOMAIN gm : x[1] # group_id} |-> gm[k]]
                        ELSE gm,
      messages |-> IF n >= 2 THEN [m \in DOMAIN msgs \ gone |-> msgs[m]] ELSE msgs,
      message_targets |-> IF n >= 1 THEN [k \in {x \in DOMAIN mt : x[1] \notin gone} |-> mt[k]]
                          ELSE mt]

\* GroupService::dissolveGroup that commits what it has deleted when a
\* statement fails.
dissolveGroupNoRollback(g, gm, msgs, mt, actor_id, group_id, fail_at) ==
  LET perm == isOwnerOrAdmin(gm, actor_id, group_id)
      part == DissolveRows(g, gm, msgs, mt, group_id, fail_at - 1)
      all == DissolveRows(g, gm, msgs, mt, group_id, 4)
  IN IF ~perm.ok THEN GroupOut(FALSE, perm.error, g, gm, msgs, mt)
     ELSE IF ~perm.is_owner THEN GroupOut(FALSE, "only owner can dissolve group", g, gm, msgs, mt)
     ELSE IF fail_at \in 1..4
       THEN GroupOut(FALSE, "store error", part.groups, part.group_members, part.messages,
                     part.message_targets)
     ELSE GroupOut(TRUE, "", all.groups, all.group_members, all.messages, all.message_targets)

\* GroupService::dissolveGroup: targets of the group's messages, the messages,
\* the members and the group row go in one transaction.  fail_at is the
\* statement that fails (0: none); a failure rolls the transaction back.
dissolveGroup(g, gm, msgs, mt, actor_id, group_id, fail_at) ==
  LET perm == isOwnerOrAdmin(gm, actor_id, group_id)
      all == DissolveRows(g, gm, msgs, mt, group_id, 4)
  IN IF ~perm.ok THEN GroupOut(FALSE, perm.error, g, gm, msgs, mt)
     ELSE IF ~perm.is_owner THEN GroupOut(FALSE, "only owner can dissolve group", g, gm, msgs, mt)
     ELSE IF fail_at \in 1..4 THEN GroupOut(FALSE, "store error", g, gm, msgs, mt)
     ELSE GroupOut(TRUE, "", all.groups, all.group_members, all.messages, all.message_targets)

\* GroupService::setAdmin.
setAdmin(g, gm, msgs, mt, actor_id, group_id, target_user_id, make_admin) ==
  LET perm == isOwnerOrAdmin(gm, actor_id, group_id)
      target_role == getUserRole(gm, target_user_id, group_id)
  IN IF ~perm.ok THEN GroupOut(FALSE, perm.error, g, gm, msgs, mt)
     ELSE IF ~perm.is_owner THEN GroupOut(FALSE, "only owner can change admin role", g, gm, msgs, mt)
     ELSE IF target_role = "" THEN GroupOut(FALSE, "user not in group", g, gm, msgs, mt)
     ELSE IF target_role = "owner" THEN GroupOut(FALSE, "cannot change owner role", g, gm, msgs, mt)
     ELSE GroupOut(TRUE, "", g,
                   [gm EXCEPT ![<<group_id, target_user_id>>] =
                      IF make_admin THEN "admin" ELSE "member"],
                   msgs, mt)

(***************************************************************************)
(* FileService: the offline spool of completion notices.                   *)
(***************************************************************************)
\* The file ids of a set in ascending created_at (ids as the tie-break).
RECURSIVE FilesByCreatedAt(_, _)
FilesByCreatedAt(tbl, S) ==
  IF S = {} THEN <<>>
  ELSE LET key(f) == tbl[f].created_at
           first == CHOOSE f \in S : \A g \in S : key(f) <= key(g)
       IN <<first>> \o FilesByCreatedAt(tbl, S \ {first})

\* FileService::fetchUndelivered without the LEFT JOIN on file_uploads.
fileFetchUndeliveredAnyState(tbl, uploads, ft, user_id, limit) ==
  LET ids == {k[1] : k \in {t \in DOMAIN ft : t[2] = user_id /\ ~ft[t]}} \cap DOMAIN tbl
      sorted == FilesByCreatedAt(tbl, ids)
  IN SubSeq(sorted, 1, Min({limit, Len(sorted)}))

\* FileService::fetchUndelivered: up to limit finalized files (no file_uploads
\* row) with an undelivered target row of the user, by created_at.
fileFetchUndelivered(tbl, uploads, ft, user_id, limit) ==
  LET ids == ({k[1] : k \in {t \in DOMAIN ft : t[2] = user_id /\ ~ft[t]}} \cap DOMAIN tbl)
               \ DOMAIN uploads
      sorted == FilesByCreatedAt(tbl, ids)
  IN SubSeq(sorted, 1, Min({limit, Len(sorted)}))

\* FileService::markDelivered.
fileMarkDelivered(ft, user_id, file_ids, error_in, fails) ==
  IF file_ids = <<>> THEN [ok |-> TRUE, file_targets |-> ft]
  ELSE IF fails \/ error_in # "" THEN [ok |-> FALSE, file_targets |-> ft]
  ELSE [ok |-> TRUE,
        file_targets |->
          [k \in DOMAIN ft |->
             IF k[2] = user_id /\ k[1] \in Range(file_ids) THEN TRUE ELSE ft[k]]]

(***************************************************************************)
(* FileService: uploads and downloads.  A digest is the record of its       *)
(* length as a hex string and of the content it is the digest of; the empty *)
(* string has length 0.                                                    *)
(***************************************************************************)
kSha256HexLength == 64

NoDigest == [len |-> 0, of |-> <<>>]

\* sha256HexFile, of a file's content.
sha256Hex(content) == [len |-> kSha256HexLength, of |-> content]

temp_path(file_id) == <<"tmp", file_id>>
storage_path(file_id) == <<"files", file_id>>

FileOut(ok, error, tbl, uploads, ft, dsk, info) ==
  [ok |-> ok, error |-> error, files |-> tbl, file_uploads |-> uploads,
   file_targets |-> ft, disk |-> dsk, info |-> info]

NoUpload == [file_id |-> "", uploaded_size |-> 0]

\* FileService::getUploadInfo with files LEFT JOIN file_uploads: the file
\* row alone is enough.
getUploadInfoAnyState(tbl, uploads, file_id) ==
  IF file_id \in DOMAIN tbl
    THEN [ok |-> TRUE, error |-> "", file_id |-> file_id,
          uploader_id |-> tbl[file_id].uploader_id,
          file_size |-> tbl[file_id].file_size,
          sha256 |-> tbl[file_id].sha256,
          uploaded_size |-> IF file_id \in DOMAIN uploads
                              THEN uploads[file_id].uploaded_size ELSE 0]
    ELSE [ok |-> FALSE, error |-> "upload not found", file_id |-> file_id,
          uploader_id |-> NoUser, file_size |-> 0, sha256 |-> NoDigest, uploaded_size |-> 0]

\* FileService::getUploadInfo: the joined row of files and file_uploads.
getUploadInfo(tbl, uploads, file_id) ==
  IF file_id \in DOMAIN tbl /\ file_id \in DOMAIN uploads
    THEN [ok |-> TRUE, error |-> "", file_id |-> file_id,
          uploader_id |-> tbl[file_id].uploader_id,
          file_size |-> tbl[file_id].file_size,
          sha256 |-> tbl[file_id].sha256,
          uploaded_size |-> uploads[file_id].uploaded_size]
    ELSE [ok |-> FALSE, error |-> "upload not found", file_id |-> file_id,
          uploader_id |-> NoUser, file_size |-> 0, sha256 |-> NoDigest, uploaded_size |-> 0]

\* FileService::createUpload with the id generateId() returned and the
\* ordinal of the creation as created_at.
createUpload(tbl, uploads, ft, dsk, offer, file_id, created_at) ==
  IF offer.file_size <= 0
    THEN FileOut(FALSE, "file_size must be positive", tbl, uploads, ft, dsk, NoUpload)
  ELSE IF offer.recipients = <<>>
    THEN FileOut(FALSE, "recipients empty", tbl, uploads, ft, dsk, NoUpload)
  ELSE IF file_id \in DOMAIN tbl \/ file_id \in DOMAIN uploads
    THEN FileOut(FALSE, "store error", tbl, uploads, ft, dsk, NoUpload)
  ELSE LET unique_targets == Range(offer.recipients)
       IN FileOut(TRUE, "",
            Put(tbl, file_id,
                [uploader_id |-> offer.uploader_id,
                 conversation_type |-> offer.conversation_type,
                 conversation_id |-> offer.conversation_id,
                 file_name |-> offer.file_name,
                 file_size |-> offer.file_size,
                 sha256 |-> offer.sha256,
                 created_at |-> created_at]),
            Put(uploads, file_id, [uploader_id |-> offer.uploader_id, uploaded_size |-> 0]),
            [k \in DOMAIN ft \cup {<<file_id, u>> : u \in unique_targets} |->
               IF k \in DOMAIN ft THEN ft[k] ELSE FALSE],
            dsk,
            [file_id |-> file_id, uploaded_size |-> 0])

\* FileService::resumeUpload: the recorded offset is replaced by the size of
\* the temp file when they differ.
resumeUpload(tbl, uploads, ft, dsk, file_id, uploader_id) ==
  LET current == getUploadInfo(tbl, uploads, file_id)
      actual_size == IF temp_path(file_id) \in DOMAIN dsk THEN Len(dsk[temp_path(file_id)]) ELSE 0
  IN IF ~current.ok THEN FileOut(FALSE, current.error, tbl, uploads, ft, dsk, NoUpload)
     ELSE IF current.uploader_id # uploader_id
       THEN FileOut(FALSE, "uploader mismatch", tbl, uploads, ft, dsk, NoUpload)
     ELSE FileOut(TRUE, "", tbl,
                  IF actual_size # current.uploaded_size
                    THEN [uploads EXCEPT ![file_id].uploaded_size = actual_size] ELSE uploads,
                  ft, dsk, [file_id |-> file_id, uploaded_size |-> actual_size])

\* What an fstream leaves in a file after a write of data at an offset.
WriteAt(content, offset, data) ==
  SubSeq(content, 1, offset) \o data \o SubSeq(content, offset + Len(data) + 1, Len(content))

\* FileService::appendChunk without the comparison of the uploader ids.
appendChunkAnyUploader(tbl, uploads, ft, dsk, file_id, uploader_id, offset, data, db_fail) ==
  LET current == getUploadInfo(tbl, uploads, file_id)
      path == temp_path(file_id)
      next_offset == offset + Len(data)
      fail(e) == FileOut(FALSE, e, tbl, uploads, ft, dsk, NoUpload)
      written == Put(dsk, path, IF offset = 0 THEN data ELSE WriteAt(dsk[path], offset, data))
  IN IF ~current.ok THEN fail(current.error)
     ELSE IF offset # current.uploaded_size THEN fail("offset mismatch")
     ELSE IF next_offset > current.file_size THEN fail("chunk exceeds file size")
     ELSE IF offset # 0 /\ path \notin DOMAIN dsk THEN fail("failed to open temp file")
     ELSE IF db_fail = "update"
       THEN FileOut(FALSE, "store error", tbl, uploads, ft, written, NoUpload)
     ELSE FileOut(TRUE, "", tbl,
                  [uploads EXCEPT ![file_id].uploaded_size = next_offset], ft,
                  written,
                  [file_id |-> file_id, uploaded_size |-> next_offset])

\* FileService::appendChunk.  The chunk is written and flushed to the temp
\* file before the UPDATE of file_uploads; db_fail = "update" is the run in
\* which that statement fails, after the write.
appendChunk(tbl, uploads, ft, dsk, file_id, uploader_id, offset, data, db_fail) ==
  LET current == getUploadInfo(tbl, uploads, file_id)
      path == temp_path(file_id)
      next_offset == offset + Len(data)
      fail(e) == FileOut(FALSE, e, tbl, uploads, ft, dsk, NoUpload)
      written == Put(dsk, path, IF offset = 0 THEN data ELSE WriteAt(dsk[path], offset, data))
  IN IF ~current.ok THEN fail(current.error)
     ELSE IF current.uploader_id # uploader_id THEN fail("uploader mismatch")
     ELSE IF offset # current.uploaded_size THEN fail("offset mismatch")
     ELSE IF next_offset > current.file_size THEN fail("chunk exceeds file size")
     ELSE IF offset # 0 /\ path \notin DOMAIN dsk THEN fail("failed to open temp file")
     ELSE IF db_fail = "update"
       THEN FileOut(FALSE, "store error", tbl, uploads, ft, written, NoUpload)
     ELSE FileOut(TRUE, "", tbl,
                  [uploads EXCEPT ![file_id].uploaded_size = next_offset], ft,
                  written,
                  [file_id |-> file_id, uploaded_size |-> next_offset])

\* FileService::finalizeUpload without the comparison of the digests.
finalizeUploadNoDigest(tbl, uploads, ft, dsk, file_id, uploader_id, db_fail) ==
  LET current == getUploadInfo(tbl, uploads, file_id)
      path == temp_path(file_id)
      fail(e) == FileOut(FALSE, e, tbl, uploads, ft, dsk, NoUpload)
      renamed == Put(Erase(dsk, path), storage_path(file_id), dsk[path])
  IN IF ~current.ok THEN fail(current.error)
     ELSE IF current.uploader_id # uploader_id THEN fail("uploader mismatch")
     ELSE IF current.uploaded_size # current.file_size THEN fail("file not fully uploaded")
     ELSE IF path \notin DOMAIN dsk THEN fail("failed to open file")
     ELSE IF db_fail = "rename" THEN fail("failed to move file to storage path")
     ELSE IF db_fail = "delete"
       THEN FileOut(FALSE, "store error", tbl, uploads, ft, renamed, NoUpload)
     ELSE FileOut(TRUE, "", tbl, Erase(uploads, file_id), ft, renamed,
                  [file_id |-> file_id, uploaded_size |-> current.uploaded_size])

\* FileService::finalizeUpload: size and digest are checked, the temp file is
\* renamed to the storage path, then the file_uploads row is deleted in a
\* transaction of its own.  db_fail = "rename" is the run in which the rename
\* fails, db_fail = "delete" the run in which the transaction fails and is
\* rolled back, after the rename.
finalizeUpload(tbl, uploads, ft, dsk, file_id, uploader_id, db_fail) ==
  LET current == getUploadInfo(tbl, uploads, file_id)
      path == temp_path(file_id)
      fail(e) == FileOut(FALSE, e, tbl, uploads, ft, dsk, NoUpload)
      renamed == Put(Erase(dsk, path), storage_path(file_id), dsk[path])
  IN IF ~current.ok THEN fail(current.error)
     ELSE IF current.uploader_id # uploader_id THEN fail("uploader mismatch")
     ELSE IF current.uploaded_size # current.file_size THEN fail("file not fully uploaded")
     ELSE IF path \notin DOMAIN dsk THEN fail("failed to open file")
     ELSE IF sha256Hex(dsk[path]) # current.sha256 THEN fail("sha256 mismatch")
     ELSE IF db_fail = "rename" THEN fail("failed to move file to storage path")
     ELSE IF db_fail = "delete"
       THEN FileOut(FALSE, "store error", tbl, uploads, ft, renamed, NoUpload)
     ELSE FileOut(TRUE, "", tbl, Erase(uploads, file_id), ft, renamed,
                  [file_id |-> file_id, uploaded_size |-> current.uploaded_size])

\* FileService::listTargets, in the order of the primary key.
listTargets(ft, file_id) ==
  (IF <<file_id, NoUser>> \in DOMAIN ft THEN <<NoUser>> ELSE <<>>)
    \o UsersInOrder({u \in Users : <<file_id, u>> \in DOMAIN ft})

\* FileService::hasDownloadPermission with the user_id left out of the WHERE
\* clause.
hasDownloadPermissionAnyUser(ft, file_id, user_id) ==
  \E k \in DOMAIN ft : k[1] = file_id

\* FileService::hasDownloadPermission.
hasDownloadPermission(ft, file_id, user_id) == <<file_id, user_id>> \in DOMAIN ft

\* FileService::isUploading.
isUploading(uploads, file_id) == file_id \in DOMAIN uploads

\* FileService::readChunk that reads all that is left of the file.
readChunkToEnd(cfg, tbl, uploads, ft, dsk, file_id, user_id, offset) ==
  LET path == storage_path(file_id)
      to_read == tbl[file_id].file_size - offset
      out(ok, e, d) == [ok |-> ok, error |-> e, data |-> d]
  IN IF ~hasDownloadPermission(ft, file_id, user_id) THEN out(FALSE, "no permission to download", <<>>)
     ELSE IF isUploading(uploads, file_id) THEN out(FALSE, "file is still uploading", <<>>)
     ELSE IF file_id \notin DOMAIN tbl THEN out(FALSE, "file not found", <<>>)
     ELSE IF offset < 0 \/ offset >= tbl[file_id].file_size
       THEN out(FALSE, "offset out of range", <<>>)
     ELSE IF path \notin DOMAIN dsk THEN out(FALSE, "failed to open file", <<>>)
     ELSE out(TRUE, "", SubSeq(dsk[path], offset + 1, Min({offset + to_read, Len(dsk[path])})))

\* FileService::readChunk: up to chunk_size bytes of a finalized file from an
\* offset, for a user with a target row.
readChunk(cfg, tbl, uploads, ft, dsk, file_id, user_id, offset) ==
  LET path == storage_path(file_id)
      to_read == Min({tbl[file_id].file_size - offset, cfg.file_chunk_size})
      out(ok, e, d) == [ok |-> ok, error |-> e, data |-> d]
  IN IF ~hasDownloadPermission(ft, file_id, user_id) THEN out(FALSE, "no permission to download", <<>>)
     ELSE IF isUploading(uploads, file_id) THEN out(FALSE, "file is still uploading", <<>>)
     ELSE IF file_id \notin DOMAIN tbl THEN out(FALSE, "file not found", <<>>)
     ELSE IF offset < 0 \/ offset >= tbl[file_id].file_size
       THEN out(FALSE, "offset out of range", <<>>)
     ELSE IF path \notin DOMAIN dsk THEN out(FALSE, "failed to open file", <<>>)
     ELSE out(TRUE, "", SubSeq(dsk[path], offset + 1, Min({offset + to_read, Len(dsk[path])})))

(***************************************************************************)
(* TcpServer: roster, AuthOk and the login drains.                         *)
(***************************************************************************)
\* TcpServer::sendAuthOk.
sendAuthOk(conns, sess, u2f, fd, request_id) ==
  queueWrite(conns, fd,
    buildPacket("AuthOk", request_id,
      [user_id |-> IF fd \in DOMAIN sess THEN sess[fd].user_id ELSE NoUser,
       nickname |-> IF fd \in DOMAIN sess THEN sess[fd].nickname ELSE "",
       registered |-> FALSE, logged_in |-> TRUE,
       online_users |-> onlineUsers(sess, u2f)]))

\* TcpServer::broadcastUserList: a UserListUpdate on every connection whose
\* session is logged in.
broadcastUserList(conns, sess, u2f) ==
  [fd \in DOMAIN conns |->
     IF isLoggedIn(sess, fd)
       THEN Append(conns[fd],
                   buildPacket("UserListUpdate", 0, [users |-> onlineUsers(sess, u2f)]))
       ELSE conns[fd]]

\* The MessageDeliver frame of a stored message.
DeliverPacket(msgs, message_id) ==
  buildPacket("MessageDeliver", 0,
    [message_id |-> message_id,
     conversation_type |-> msgs[message_id].conversation_type,
     conversation_id |-> msgs[message_id].conversation_id,
     sender_id |-> msgs[message_id].sender_id])

\* The frames of a batch, in the order of the batch.
DeliverBatch(msgs, ids) == [i \in 1..Len(ids) |-> DeliverPacket(msgs, ids[i])]

\* TcpServer::deliverOfflineMessages.  One unfolding is one turn of its
\* while (true); fail names the store call that fails in the first turn
\* ("fetch", "mark" or "none"); fuel bounds the unfolding and running out of
\* it is reported as exhausted (the loop did not leave through a return).
RECURSIVE deliverOfflineMessages(_, _, _, _, _, _, _, _)
deliverOfflineMessages(cfg, msgs, mt, wbuf, user_id, fail, fuel, turns) ==
  LET batch == Max({1, cfg.history_page_size})
      fetched == fetchUndelivered(msgs, mt, user_id, batch)
      marked == markDelivered(mt, user_id, fetched, "", fail = "mark")
      out(mt2, wbuf2, err, exh) ==
        [message_targets |-> mt2, write_buffer |-> wbuf2, store_error |-> err,
         exhausted |-> exh, turns |-> turns]
  IN IF fuel = 0 THEN out(mt, wbuf, FALSE, TRUE)
     ELSE IF fail = "fetch" THEN out(mt, wbuf, TRUE, FALSE)
     ELSE IF fetched = <<>> THEN out(mt, wbuf, FALSE, FALSE)
     ELSE IF ~marked.ok THEN out(mt, wbuf \o DeliverBatch(msgs, fetched), TRUE, FALSE)
     ELSE deliverOfflineMessages(cfg, msgs, marked.message_targets,
                                 wbuf \o DeliverBatch(msgs, fetched),
                                 user_id, "none", fuel - 1, turns + 1)

\* The FileDone notice of a file, request id 0 when server-initiated.
FileNoticeMeta(tbl, file_id) ==
  [file_id |-> file_id,
   conversation_type |-> tbl[file_id].conversation_type,
   conversation_id |-> tbl[file_id].conversation_id,
   file_size |-> tbl[file_id].file_size,
   sha256 |-> tbl[file_id].sha256,
   uploader_id |-> tbl[file_id].uploader_id]

NoticeBatch(tbl, ids) ==
  [i \in 1..Len(ids) |-> buildPacket("FileDone", 0, FileNoticeMeta(tbl, ids[i]))]

\* TcpServer::deliverOfflineFiles, unfolded like deliverOfflineMessages.
RECURSIVE deliverOfflineFiles(_, _, _, _, _, _, _, _, _)
deliverOfflineFiles(cfg, tbl, uploads, ft, wbuf, user_id, fail, fuel, turns) ==
  LET batch == Max({1, cfg.history_page_size})
      fetched == fileFetchUndelivered(tbl, uploads, ft, user_id, batch)
      marked == fileMarkDelivered(ft, user_id, fetched, "", fail = "mark")
      out(ft2, wbuf2, err, exh) ==
        [file_targets |-> ft2, write_buffer |-> wbuf2, store_error |-> err,
         exhausted |-> exh, turns |-> turns]
  IN IF fuel = 0 THEN out(ft, wbuf, FALSE, TRUE)
     ELSE IF fail = "fetch" THEN out(ft, wbuf, TRUE, FALSE)
     ELSE IF fetched = <<>> THEN out(ft, wbuf, FALSE, FALSE)
     ELSE IF ~marked.ok THEN out(ft, wbuf \o NoticeBatch(tbl, fetched), TRUE, FALSE)
     ELSE deliverOfflineFiles(cfg, tbl, uploads, marked.file_targets,
                              wbuf \o NoticeBatch(tbl, fetched),
                              user_id, "none", fuel - 1, turns + 1)

\* The message ids of the MessageDeliver frames of a sequence of frames.
RECURSIVE DeliverIds(_)
DeliverIds(frames) ==
  IF frames = <<>> THEN <<>>
  ELSE (IF Head(frames).type = "MessageDeliver" THEN <<Head(frames).meta.message_id>>
        ELSE <<>>) \o DeliverIds(Tail(frames))

\* The frames a step appended to a write buffer.
Appended(old, new) == SubSeq(new, Len(old) + 1, Len(new))

(***************************************************************************)
(* Codec and ByteBuffer.  A byte is a number in 0..255; a buffer is the     *)
(* sequence of the bytes from its read offset on.  The values written are   *)
(* below 2^31.                                                              *)
(***************************************************************************)
kHeaderSize == 28
kMaxMetaSize == 1048576
kMaxBinarySize == 33554432
kMagic == 1330402379
kVersion == 1

\* value >> bits, for a value below 2^31.
Shr(value, bits) == IF bits > 30 THEN 0 ELSE value \div (2 ^ bits)

writeU16(value) == <<Shr(value, 8) % 256, value % 256>>
writeU32(value) == <<Shr(value, 24) % 256, Shr(value, 16) % 256, Shr(value, 8) % 256, value % 256>>
writeU64(value) == [i \in 1..8 |-> Shr(value, 8 * (8 - i)) % 256]

\* The big-endian value of the n bytes that follow position at of data.
RECURSIVE readBytes(_, _, _)
readBytes(data, at, n) ==
  IF n = 0 THEN 0 ELSE readBytes(data, at, n - 1) * 256 + data[at + n]

readU16(data, at) == readBytes(data, at, 2)
readU32(data, at) == readBytes(data, at, 4)
readU64(data, at) == readBytes(data, at, 8)

PacketHeader(magic, version, type, flags, request_id, meta_len, bin_len) ==
  [magic |-> magic, version |-> version, type |-> type, flags |-> flags,
   request_id |-> request_id, meta_len |-> meta_len, bin_len |-> bin_len]

\* A Packet as its constructor leaves it, then filled like buildPacket does.
Packet(type, flags, request_id, meta_json, binary) ==
  [header |-> PacketHeader(kMagic, kVersion, type, flags, request_id, 0, 0),
   meta_json |-> meta_json, binary |-> binary]

NoPacket == Packet(0, 0, 0, <<>>, <<>>)

\* The 28 bytes of a header.
HeaderBytes(h) ==
  writeU32(h.magic) \o writeU16(h.version) \o writeU16(h.type) \o writeU32(h.flags)
    \o writeU64(h.request_id) \o writeU32(h.meta_len) \o writeU32(h.bin_len)

\* Codec::encode that writes the length fields the header holds.
encodeHeaderLengths(packet) ==
  HeaderBytes(packet.header) \o packet.meta_json \o packet.binary

\* Codec::encode: the lengths written are the sizes of the payloads.
encode(packet) ==
  HeaderBytes([packet.header EXCEPT !.meta_len = Len(packet.meta_json),
                                    !.bin_len = Len(packet.binary)])
    \o packet.meta_json \o packet.binary

\* The header fields read from the first 28 bytes of a buffer.
ReadHeader(data) ==
  PacketHeader(readU32(data, 0), readU16(data, 4), readU16(data, 6), readU32(data, 8),
               readU64(data, 12), readU32(data, 20), readU32(data, 24))

\* ByteBuffer::consume.
consume(buffer, size) == SubSeq(buffer, Min({size, Len(buffer)}) + 1, Len(buffer))

\* Codec::decode: the packet at the head of the buffer and the buffer left.
decode(buffer) ==
  LET header == ReadHeader(buffer)
      total_size == kHeaderSize + header.meta_len + header.bin_len
      failed == [ok |-> FALSE, packet |-> NoPacket, buffer |-> buffer]
  IN IF Len(buffer) < kHeaderSize THEN failed
     ELSE IF header.magic # kMagic \/ header.version # kVersion THEN failed
     ELSE IF header.meta_len > kMaxMetaSize \/ header.bin_len > kMaxBinarySize THEN failed
     ELSE IF Len(buffer) < total_size THEN failed
     ELSE [ok |-> TRUE,
           packet |-> [header |-> header,
                       meta_json |-> SubSeq(buffer, kHeaderSize + 1,
                                            kHeaderSize + header.meta_len),
                       binary |-> SubSeq(buffer, kHeaderSize + header.meta_len + 1, total_size)],
           buffer |-> consume(buffer, total_size)]

\* TcpServer::peekHeader without the test of the payload lengths.
peekHeaderNoCap(buffer) ==
  LET header == ReadHeader(buffer)
  IN IF Len(buffer) < kHeaderSize THEN [ok |-> FALSE, error |-> "", header |-> NoPacket.header]
     ELSE IF header.magic # kMagic
       THEN [ok |-> FALSE, error |-> "invalid magic", header |-> header]
     ELSE IF header.version # kVersion
       THEN [ok |-> FALSE, error |-> "unsupported version", header |-> header]
     ELSE [ok |-> TRUE, error |-> "", header |-> header]

\* TcpServer::peekHeader: error "" with ok FALSE asks for more bytes.
peekHeader(buffer) ==
  LET header == ReadHeader(buffer)
  IN IF Len(buffer) < kHeaderSize THEN [ok |-> FALSE, error |-> "", header |-> NoPacket.header]
     ELSE IF header.magic # kMagic
       THEN [ok |-> FALSE, error |-> "invalid magic", header |-> header]
     ELSE IF header.version # kVersion
       THEN [ok |-> FALSE, error |-> "unsupported version", header |-> header]
     ELSE IF header.meta_len > kMaxMetaSize \/ header.bin_len > kMaxBinarySize
       THEN [ok |-> FALSE, error |-> "payload too large", header |-> header]
     ELSE [ok |-> TRUE, error |-> "", header |-> header]

\* TcpServer::tryDecodePacket without the wait for the whole frame.
tryDecodePacketNoWait(buffer) ==
  LET peek == peekHeader(buffer)
      dec == decode(buffer)
      none(error) == [ok |-> FALSE, error |-> error, packet |-> NoPacket, buffer |-> buffer]
  IN IF ~peek.ok THEN none(peek.error)
     ELSE IF ~dec.ok THEN none("decode failed")
     ELSE [ok |-> TRUE, error |-> "", packet |-> dec.packet, buffer |-> dec.buffer]

\* TcpServer::tryDecodePacket: a packet, a protocol error, or (ok FALSE with
\* error "") the wait for more bytes.
tryDecodePacket(buffer) ==
  LET peek == peekHeader(buffer)
      total == kHeaderSize + peek.header.meta_len + peek.header.bin_len
      dec == decode(buffer)
      none(error) == [ok |-> FALSE, error |-> error, packet |-> NoPacket, buffer |-> buffer]
  IN IF ~peek.ok THEN none(peek.error)
     ELSE IF Len(buffer) < total THEN none("")
     ELSE IF ~dec.ok THEN none("decode failed")
     ELSE [ok |-> TRUE, error |-> "", packet |-> dec.packet, buffer |-> dec.buffer]

\* PacketType: the tags a client sends.
PacketTypeName(type) ==
  CASE type = 1 -> "AuthRegister" [] type = 2 -> "AuthLogin"
    [] type = 7 -> "GroupCreate" [] type = 8 -> "GroupJoin" [] type = 9 -> "GroupLeave"
    [] type = 10 -> "GroupAdmin" [] type = 11 -> "MessageSend" [] type = 13 -> "HistoryFetch"
    [] type = 15 -> "FileOffer" [] type = 17 -> "FileUploadChunk"
    [] type = 18 -> "FileUploadDone" [] type = 19 -> "FileDownloadRequest"
    [] OTHER -> "other"

\* The session of fd is logged in as u.
LoggedInAs(fd, u) ==
  fd \in DOMAIN sessions_ /\ sessions_[fd].logged_in /\ sessions_[fd].user_id = u

(***************************************************************************)
(* The reactor's events.                                                   *)
(***************************************************************************)
\* A read event is served while every write queue is short; the packets of
\* one read event are dispatched one after the other whatever the queues hold.
Ready ==
  reading # 0 \/ \A fd \in DOMAIN connections_ : Len(connections_[fd]) <= MaxPending

\* TcpServer::updateEpollEvents: EPOLL_CTL_MOD sets the events of a registered
\* fd; EPOLLOUT is among them when want_write.
updateEpollEventsArmOnly(interest, fd, want_write) ==
  IF fd \in DOMAIN interest THEN [interest EXCEPT ![fd] = TRUE] ELSE interest

updateEpollEvents(interest, fd, want_write) ==
  IF fd \in DOMAIN interest THEN [interest EXCEPT ![fd] = want_write] ELSE interest

\* The epoll set after a handler turned the write queues old into new: a new
\* connection is added without EPOLLOUT, a closed one is deleted, and every
\* queueWrite is followed by updateEpollEvents(fd, true).
Armed(old, new, interest) ==
  [f \in DOMAIN new |->
     IF f \notin DOMAIN old THEN FALSE
     ELSE IF Len(new[f]) > Len(old[f]) THEN TRUE
     ELSE interest[f]]

\* The epoll set a handler run for fd leaves; when the handler is the whole
\* of a read event, the event ends with updateEpollEvents(fd, hasPendingWrite()).
Rearmed(fd) ==
  LET armed == Armed(connections_, connections_', epoll_out)
  IN IF reading = 0 THEN updateEpollEvents(armed, fd, connections_'[fd] # <<>>) ELSE armed

\* The read buffers a handler run for fd leaves: in the loop of
\* processPackets the frame dispatched was consumed by Codec::decode.
Consumed(fd) ==
  IF reading = fd THEN [rbuf EXCEPT ![fd] = tryDecodePacket(@).buffer] ELSE rbuf

Event(op, fd, req, code, message, info) ==
  [op |-> op, fd |-> fd, req |-> req, code |-> code, message |-> message, info |-> info]

NoReq == [type |-> "", request_id |-> 0]
NoInfo == [store_error |-> FALSE]

\* TcpServer::acceptConnections with the cap test connections_.size() > max_clients.
acceptConnectionsOverCap(fd) ==
  /\ reading = 0
  /\ Ready
  /\ fd \in Fds \ DOMAIN connections_
  /\ IF Cardinality(DOMAIN connections_) > config.max_clients
       THEN /\ last' = Event("accept", fd, NoReq, "closed", "", NoInfo)
            /\ UNCHANGED <<connections_, sessions_, dlog, rbuf, epoll_out>>
       ELSE /\ connections_' = Put(connections_, fd, <<>>)
            /\ sessions_' = addConnection(sessions_, fd)
            /\ rbuf' = Put(rbuf, fd, <<>>)
            /\ epoll_out' = Armed(connections_, connections_', epoll_out)
            /\ dlog' = [dlog EXCEPT ![fd] = <<>>]
            /\ last' = Event("accept", fd, NoReq, "", "", NoInfo)
  /\ UNCHANGED <<connection, client, config, user_to_fd_, store, disk, acked, reading>>

\* TcpServer::acceptConnections, one accepted socket: over the cap it is
\* closed, otherwise it gets a connection buffer and a session slot.
acceptConnections(fd) ==
  /\ reading = 0
  /\ Ready
  /\ fd \in Fds \ DOMAIN connections_
  /\ IF Cardinality(DOMAIN connections_) >= config.max_clients
       THEN /\ last' = Event("accept", fd, NoReq, "closed", "", NoInfo)
            /\ UNCHANGED <<connections_, sessions_, dlog, rbuf, epoll_out>>
       ELSE /\ connections_' = Put(connections_, fd, <<>>)
            /\ sessions_' = addConnection(sessions_, fd)
            /\ rbuf' = Put(rbuf, fd, <<>>)
            /\ epoll_out' = Armed(connections_, connections_', epoll_out)
            /\ dlog' = [dlog EXCEPT ![fd] = <<>>]
            /\ last' = Event("accept", fd, NoReq, "", "", NoInfo)
  /\ UNCHANGED <<connection, client, config, user_to_fd_, store, disk, acked, reading>>

\* TcpServer::disconnect: the session and the connection buffer go, then the
\* roster is broadcast.  run() calls it for a socket that hung up and for a
\* read event that failed.
\* The message of the event is the protocol error processPackets logged.
disconnect(fd) ==
  /\ reading \in {0, fd}
  /\ fd \in DOMAIN connections_
  /\ LET rm == removeConnection(sessions_, user_to_fd_, fd)
     IN /\ sessions_' = rm.sessions
        /\ user_to_fd_' = rm.user_to_fd
        /\ connections_' = broadcastUserList(Erase(connections_, fd), rm.sessions, rm.user_to_fd)
  /\ dlog' = [dlog EXCEPT ![fd] = <<>>]
  /\ acked' = [f \in DOMAIN acked |->
                 IF f \in DOMAIN file_uploads /\ f \in DOMAIN files
                      /\ LoggedInAs(fd, files[f].uploader_id)
                   THEN [acked[f] EXCEPT !.dropped = TRUE] ELSE acked[f]]
  /\ last' = Event("disconnect", fd, NoReq, "",
                   IF reading = fd THEN tryDecodePacket(rbuf[fd]).error ELSE "", NoInfo)
  /\ UNCHANGED <<connection, client, config, store, disk>>
  /\ rbuf' = Erase(rbuf, fd)
  /\ epoll_out' = Armed(connections_, connections_', epoll_out)
  /\ reading' = 0

\* The event of a socket that became writable while EPOLLOUT is armed:
\* Connection::flushWrite at frame granularity (the socket takes the first k
\* pending frames in full before it blocks), then the interest is set to
\* hasPendingWrite().
flushWrite(fd, k) ==
  /\ reading = 0
  /\ fd \in DOMAIN connections_
  /\ epoll_out[fd]
  /\ k \in 1..Len(connections_[fd])
  /\ connections_' = [connections_ EXCEPT ![fd] = SubSeq(@, k + 1, Len(@))]
  /\ epoll_out' = updateEpollEvents(epoll_out, fd, connections_'[fd] # <<>>)
  /\ last' = Event("flush", fd, NoReq, "", "", NoInfo)
  /\ UNCHANGED <<connection, client, config, sessions_, user_to_fd_, store, disk, acked, dlog, rbuf, reading>>

\* An answer that changes nothing but the requester's write queue.
AuthReject(fd, req, code, message) ==
  /\ connections_' = sendAuthError(connections_, fd, req.request_id, code, message)
  /\ last' = Event(req.type, fd, req, code, message, NoInfo)
  /\ rbuf' = Consumed(fd)
  /\ epoll_out' = Rearmed(fd)
  /\ UNCHANGED <<connection, client, config, sessions_, user_to_fd_, store, disk, acked, dlog, reading>>

\* TcpServer::handleRegister.
handleRegister(fd, req) ==
  /\ Ready
  /\ fd \in DOMAIN connections_
  /\ req.type = "AuthRegister"
  /\ LET reg == registerUser(users, req.user_id, req.nickname, req.password)
     IN IF ~req.json_ok THEN AuthReject(fd, req, "INVALID_JSON", "invalid json")
        ELSE IF req.user_id = "" THEN AuthReject(fd, req, "INVALID_USER_ID", "user_id is required")
        ELSE IF req.nickname = "" THEN AuthReject(fd, req, "INVALID_NICKNAME", "nickname is required")
        ELSE IF req.password = "" THEN AuthReject(fd, req, "INVALID_PASSWORD", "password is required")
        ELSE IF ~reg.ok THEN AuthReject(fd, req, "REGISTER_FAILED", reg.error)
        ELSE /\ users' = reg.users
             /\ connections_' = sendResponse(connections_, fd, "AuthOk", req.request_id, "ok", "", "",
                                             [registered |-> TRUE, logged_in |-> FALSE])
             /\ last' = Event(req.type, fd, req, "ok", "", NoInfo)
             /\ rbuf' = Consumed(fd)
             /\ epoll_out' = Rearmed(fd)
             /\ UNCHANGED <<connection, client, config, sessions_, user_to_fd_, groups, group_members, messages,
                            msg_seq, message_targets, files, file_uploads, file_targets,
                            id_seq, disk, acked, dlog, reading>>

\* TcpServer::handleLogin.  fail_m and fail_f name the store call that fails
\* in the message drain and in the file drain.
handleLogin(fd, req, fail_m, fail_f) ==
  /\ Ready
  /\ fd \in DOMAIN connections_
  /\ req.type = "AuthLogin"
  /\ LET lu == loginUser(users, req.user_id, req.password)
         lg == login(sessions_, user_to_fd_, fd, lu.user_id, lu.nickname)
         c1 == sendAuthOk(connections_, lg.sessions, lg.user_to_fd, fd, req.request_id)
         c2 == broadcastUserList(c1, lg.sessions, lg.user_to_fd)
         dm == deliverOfflineMessages(config, messages, message_targets, c2[fd], lu.user_id,
                                      fail_m, Cardinality(DOMAIN message_targets) + 1, 0)
         df == deliverOfflineFiles(config, files, file_uploads, file_targets, dm.write_buffer,
                                   lu.user_id, fail_f, Cardinality(DOMAIN file_targets) + 1, 0)
     IN IF ~req.json_ok THEN AuthReject(fd, req, "INVALID_JSON", "invalid json")
        ELSE IF req.user_id = "" THEN AuthReject(fd, req, "INVALID_USER_ID", "user_id is required")
        ELSE IF req.password = "" THEN AuthReject(fd, req, "INVALID_PASSWORD", "password is required")
        ELSE IF ~lu.ok THEN AuthReject(fd, req, "LOGIN_FAILED", lu.error)
        ELSE IF ~lg.ok THEN AuthReject(fd, req, "LOGIN_FAILED", lg.error)
        ELSE /\ sessions_' = lg.sessions
             /\ user_to_fd_' = lg.user_to_fd
             /\ connections_' = [c2 EXCEPT ![fd] = df.write_buffer]
             /\ message_targets' = dm.message_targets
             /\ file_targets' = df.file_targets
             /\ dlog' = [dlog EXCEPT ![fd] = DeliverIds(Appended(c2[fd], df.write_buffer))]
             /\ last' = Event(req.type, fd, req, "ok", "",
                              [store_error |-> dm.store_error \/ df.store_error,
                               exhausted |-> dm.exhausted \/ df.exhausted,
                               turns |-> dm.turns + df.turns])
             /\ rbuf' = Consumed(fd)
             /\ epoll_out' = Rearmed(fd)
             /\ UNCHANGED <<connection, client, config, users, groups, group_members, messages, msg_seq, files,
                            file_uploads, id_seq, disk, acked, reading>>

\* The test that opens handleGroup, handleMessage and handleFile, with the
\* logged_in flag left out.
notLoggedInSessionOnly(sess, fd) == fd \notin DOMAIN sess

\* The test that opens handleGroup, handleMessage and handleFile: no session,
\* or a session that is not logged in.
notLoggedIn(sess, fd) == fd \notin DOMAIN sess \/ ~sess[fd].logged_in

\* What a handler answers: the response type, the envelope and what the
\* event records.
Answer(type, status, code, message, extra) ==
  [type |-> type, status |-> status, code |-> code, message |-> message, extra |-> extra]

NoExtra == [none |-> TRUE]

\* The service call of handleGroup for a validated request, as the result of
\* GroupService and the code sent when it fails.
GroupCall(req, user_id, new_id, fail_at) ==
  LET g == groups
      gm == group_members
      ms == messages
      mt == message_targets
      same == GroupOut(FALSE, "", g, gm, ms, mt)
      out(r, code) == [r |-> r, code |-> code]
  IN IF req.type = "GroupCreate"
       THEN IF req.name = "" THEN out(same, "INVALID_NAME")
            ELSE out(createGroup(g, gm, ms, mt, user_id, req.name, new_id), "CREATE_FAILED")
     ELSE IF req.type = "GroupJoin"
       THEN IF req.group_id = "" THEN out(same, "INVALID_GROUP_ID")
            ELSE out(joinGroup(g, gm, ms, mt, user_id, req.group_id), "JOIN_FAILED")
     ELSE IF req.type = "GroupLeave"
       THEN IF req.group_id = "" THEN out(same, "INVALID_GROUP_ID")
            ELSE out(leaveGroup(g, gm, ms, mt, user_id, req.group_id), "LEAVE_FAILED")
     ELSE IF req.action = "" \/ req.group_id = "" THEN out(same, "INVALID_REQUEST")
     ELSE IF req.action = "rename"
       THEN IF req.name = "" THEN out(same, "INVALID_NAME")
            ELSE out(renameGroup(g, gm, ms, mt, user_id, req.group_id, req.name), "RENAME_FAILED")
     ELSE IF req.action = "kick"
       THEN IF req.target_user_id = "" THEN out(same, "INVALID_TARGET")
            ELSE out(kickUser(g, gm, ms, mt, user_id, req.group_id, req.target_user_id),
                     "KICK_FAILED")
     ELSE IF req.action = "dissolve"
       THEN out(dissolveGroup(g, gm, ms, mt, user_id, req.group_id, fail_at), "DISSOLVE_FAILED")
     ELSE IF req.action \in {"promote", "demote"}
       THEN IF req.target_user_id = "" THEN out(same, "INVALID_TARGET")
            ELSE out(setAdmin(g, gm, ms, mt, user_id, req.group_id, req.target_user_id,
                              req.action = "promote"), "ADMIN_FAILED")
     ELSE out(same, "UNKNOWN_ACTION")

\* TcpServer::handleGroup.  fail_at is the statement of dissolveGroup that
\* fails (0: none).
handleGroup(fd, req, fail_at) ==
  /\ Ready
  /\ fd \in DOMAIN connections_
  /\ req.type \in {"GroupCreate", "GroupJoin", "GroupLeave", "GroupAdmin"}
  /\ req.type = "GroupCreate" => id_seq < Len(IdSeq)
  /\ LET gated == notLoggedIn(sessions_, fd)
         user_id == IF fd \in DOMAIN sessions_ THEN sessions_[fd].user_id ELSE NoUser
         new_id == IdSeq[id_seq + 1]
         call == GroupCall(req, user_id, new_id, fail_at)
         calls_create == ~gated /\ req.json_ok /\ req.type = "GroupCreate" /\ req.name # ""
                           /\ user_id # "" 
         ans == IF gated THEN Answer(req.type, "error", "NOT_LOGGED_IN", "login required", NoExtra)
                ELSE IF ~req.json_ok
                  THEN Answer(req.type, "error", "INVALID_JSON", "invalid json", NoExtra)
                ELSE IF call.r.ok
                  THEN Answer(req.type, "ok", "", "",
                              IF req.type = "GroupCreate"
                                THEN [group_id |-> new_id, name |-> req.name] ELSE NoExtra)
                ELSE Answer(req.type, "error", call.code,
                            IF call.r.error = "" THEN "invalid field" ELSE call.r.error, NoExtra)
         applied == ~gated /\ req.json_ok
     IN /\ connections_' = sendResponse(connections_, fd, ans.type, req.request_id,
                                        ans.status, ans.code, ans.message, ans.extra)
        /\ last' = Event(req.type, fd, req, IF ans.status = "ok" THEN "ok" ELSE ans.code,
                         ans.message, NoInfo)
        /\ groups' = IF applied THEN call.r.groups ELSE groups
        /\ group_members' = IF applied THEN call.r.group_members ELSE group_members
        /\ messages' = IF applied THEN call.r.messages ELSE messages
        /\ message_targets' = IF applied THEN call.r.message_targets ELSE message_targets
        /\ id_seq' = IF calls_create THEN id_seq + 1 ELSE id_seq
  /\ rbuf' = Consumed(fd)
  /\ epoll_out' = Rearmed(fd)
  /\ UNCHANGED <<connection, client, config, sessions_, user_to_fd_, users, msg_seq, files, file_uploads,
                 file_targets, disk, acked, dlog, reading>>

\* The recipient resolution that leaves the sender in the list.
RecipientsWithSender(tbl, gm, user_id, conversation_type, conversation_id, keep_sender) ==
  LET members == getGroupMembers(gm, conversation_id)
      others == members
  IN IF conversation_type = "private"
       THEN IF userExists(tbl, conversation_id)
              THEN [code |-> "", message |-> "", list |-> <<conversation_id>>]
              ELSE [code |-> "TARGET_NOT_FOUND", message |-> "target user not found", list |-> <<>>]
     ELSE IF conversation_type = "group"
       THEN IF getUserRole(gm, user_id, conversation_id) = ""
              THEN [code |-> "NOT_IN_GROUP", message |-> "user not in group", list |-> <<>>]
            ELSE IF keep_sender THEN [code |-> "", message |-> "", list |-> members]
            ELSE IF others = <<>>
              THEN [code |-> "NO_RECIPIENTS", message |-> "no recipients available", list |-> <<>>]
            ELSE [code |-> "", message |-> "", list |-> others]
     ELSE [code |-> "INVALID_CONVERSATION_TYPE", message |-> "use private or group", list |-> <<>>]

\* The recipient resolution without the test of the sender's membership.
RecipientsAnySender(tbl, gm, user_id, conversation_type, conversation_id, keep_sender) ==
  LET members == getGroupMembers(gm, conversation_id)
      others == SelectSeq(members, LAMBDA u : u # user_id)
  IN IF conversation_type = "private"
       THEN IF userExists(tbl, conversation_id)
              THEN [code |-> "", message |-> "", list |-> <<conversation_id>>]
              ELSE [code |-> "TARGET_NOT_FOUND", message |-> "target user not found", list |-> <<>>]
     ELSE IF conversation_type = "group"
       THEN IF keep_sender THEN [code |-> "", message |-> "", list |-> members]
            ELSE IF others = <<>>
              THEN [code |-> "NO_RECIPIENTS", message |-> "no recipients available", list |-> <<>>]
            ELSE [code |-> "", message |-> "", list |-> others]
     ELSE [code |-> "INVALID_CONVERSATION_TYPE", message |-> "use private or group", list |-> <<>>]

\* The recipients handleMessage and handleFile's offer resolve for a
\* conversation, or the code they answer with.  keep_sender: the offer keeps
\* the sender among a group's recipients, the message drops it.
Recipients(tbl, gm, user_id, conversation_type, conversation_id, keep_sender) ==
  LET members == getGroupMembers(gm, conversation_id)
      others == SelectSeq(members, LAMBDA u : u # user_id)
  IN IF conversation_type = "private"
       THEN IF userExists(tbl, conversation_id)
              THEN [code |-> "", message |-> "", list |-> <<conversation_id>>]
              ELSE [code |-> "TARGET_NOT_FOUND", message |-> "target user not found", list |-> <<>>]
     ELSE IF conversation_type = "group"
       THEN IF getUserRole(gm, user_id, conversation_id) = ""
              THEN [code |-> "NOT_IN_GROUP", message |-> "user not in group", list |-> <<>>]
            ELSE IF keep_sender THEN [code |-> "", message |-> "", list |-> members]
            ELSE IF others = <<>>
              THEN [code |-> "NO_RECIPIENTS", message |-> "no recipients available", list |-> <<>>]
            ELSE [code |-> "", message |-> "", list |-> others]
     ELSE [code |-> "INVALID_CONVERSATION_TYPE", message |-> "use private or group", list |-> <<>>]

\* The fanout loop of handleMessage over the recipients from position i on:
\* a recipient with an fd in user_to_fd and a connection buffer gets the frame
\* and its target row is marked.
RECURSIVE MessageFanout(_, _, _, _, _, _, _, _)
MessageFanout(conns, mt, log, u2f, msgs, message_id, recipients, mark_fails) ==
  IF recipients = <<>> THEN [connections |-> conns, message_targets |-> mt, dlog |-> log]
  ELSE LET user_id == Head(recipients)
           fd == tryGetFd(u2f, user_id)
           skip == fd = 0 \/ fd \notin DOMAIN conns
       IN IF skip
            THEN MessageFanout(conns, mt, log, u2f, msgs, message_id, Tail(recipients), mark_fails)
            ELSE MessageFanout(queueWrite(conns, fd, DeliverPacket(msgs, message_id)),
                               markDelivered(mt, user_id, <<message_id>>, "", mark_fails).message_targets,
                               [log EXCEPT ![fd] = Append(@, message_id)],
                               u2f, msgs, message_id, Tail(recipients), mark_fails)

\* TcpServer::handleMessage.  fail_at is the statement of storeMessage that
\* fails (0: none); mark_fails: the markDelivered calls of the fanout fail.
handleMessage(fd, req, fail_at, mark_fails) ==
  /\ Ready
  /\ fd \in DOMAIN connections_
  /\ req.type = "MessageSend"
  /\ msg_seq < MaxMsgs
  /\ LET gated == notLoggedIn(sessions_, fd)
         user_id == IF fd \in DOMAIN sessions_ THEN sessions_[fd].user_id ELSE NoUser
         nickname == IF fd \in DOMAIN sessions_ THEN sessions_[fd].nickname ELSE ""
         rcp == Recipients(users, group_members, user_id, req.conversation_type,
                           req.conversation_id, FALSE)
         input == [conversation_type |-> req.conversation_type,
                   conversation_id |-> req.conversation_id,
                   sender_id |-> user_id, sender_nickname |-> nickname]
         st == storeMessage(messages, msg_seq, message_targets, input, rcp.list, fail_at)
         invalid == req.conversation_type = "" \/ req.conversation_id = "" \/ req.content = ""
         ans == IF gated THEN Answer(req.type, "error", "NOT_LOGGED_IN", "login required", NoExtra)
                ELSE IF ~req.json_ok
                  THEN Answer(req.type, "error", "INVALID_JSON", "invalid json", NoExtra)
                ELSE IF invalid
                  THEN Answer(req.type, "error", "INVALID_REQUEST", "field is required", NoExtra)
                ELSE IF rcp.code # "" THEN Answer(req.type, "error", rcp.code, rcp.message, NoExtra)
                ELSE IF ~st.ok THEN Answer(req.type, "error", "STORE_FAILED", st.error, NoExtra)
                ELSE Answer(req.type, "ok", "", "", [message_id |-> st.message_id])
         stored == ans.status = "ok"
         tried == ~gated /\ req.json_ok /\ ~invalid /\ rcp.code = ""
         c1 == sendResponse(connections_, fd, ans.type, req.request_id,
                            ans.status, ans.code, ans.message, ans.extra)
         fan == MessageFanout(c1, st.message_targets, dlog, user_to_fd_, st.messages,
                              st.message_id, rcp.list, mark_fails)
     IN /\ connections_' = IF stored THEN fan.connections ELSE c1
        /\ messages' = IF tried THEN st.messages ELSE messages
        /\ msg_seq' = IF tried THEN st.msg_seq ELSE msg_seq
        /\ message_targets' = IF stored THEN fan.message_targets
                              ELSE IF tried THEN st.message_targets ELSE message_targets
        /\ dlog' = IF stored THEN fan.dlog ELSE dlog
        /\ last' = Event(req.type, fd, req, IF stored THEN "ok" ELSE ans.code, ans.message,
                         [store_error |-> tried /\ ~st.ok,
                          message_id |-> IF stored THEN st.message_id ELSE 0,
                          recipients |-> IF tried THEN rcp.list ELSE <<>>])
  /\ rbuf' = Consumed(fd)
  /\ epoll_out' = Rearmed(fd)
  /\ UNCHANGED <<connection, client, config, sessions_, user_to_fd_, users, groups, group_members, files,
                 file_uploads, file_targets, id_seq, disk, acked, reading>>

\* The fanout loop of handleFile's FileUploadDone over the targets: the
\* uploader is marked without a frame, a target with an fd in user_to_fd and a
\* connection buffer gets the notice and is marked.
RECURSIVE FileFanout(_, _, _, _, _, _, _)
FileFanout(conns, ft, u2f, tbl, file_id, uploader_id, targets) ==
  IF targets = <<>> THEN [connections |-> conns, file_targets |-> ft]
  ELSE LET target == Head(targets)
           fd == tryGetFd(u2f, target)
           marked == fileMarkDelivered(ft, target, <<file_id>>, "", FALSE).file_targets
       IN IF target = uploader_id
            THEN FileFanout(conns, marked, u2f, tbl, file_id, uploader_id, Tail(targets))
          ELSE IF fd = 0 \/ fd \notin DOMAIN conns
            THEN FileFanout(conns, ft, u2f, tbl, file_id, uploader_id, Tail(targets))
          ELSE FileFanout(queueWrite(conns, fd,
                                     buildPacket("FileDone", 0, FileNoticeMeta(tbl, file_id))),
                          marked, u2f, tbl, file_id, uploader_id, Tail(targets))

\* The FileService call of handleFile for a request that passed the gate and
\* the JSON parse: the answer and the tables and files it leaves.
FileCall(req, user_id, new_id, db_fail) ==
  LET same == FileOut(TRUE, "", files, file_uploads, file_targets, disk, NoUpload)
      out(ans, r, data, fan) == [ans |-> ans, r |-> r, data |-> data, fan |-> fan]
      err(code, message, extra) == out(Answer(req.type, "error", code, message, extra), same, <<>>, FALSE)
  IN IF req.type = "FileOffer" THEN
       LET rcp == Recipients(users, group_members, user_id, req.conversation_type,
                             req.conversation_id, TRUE)
           offer == [conversation_type |-> req.conversation_type,
                     conversation_id |-> req.conversation_id,
                     file_name |-> req.file_name, file_size |-> req.file_size,
                     sha256 |-> req.sha256, uploader_id |-> user_id,
                     recipients |-> rcp.list]
           up == IF req.file_id # ""
                   THEN resumeUpload(files, file_uploads, file_targets, disk, req.file_id, user_id)
                   ELSE createUpload(files, file_uploads, file_targets, disk, offer, new_id,
                                     id_seq + 1)
       IN IF req.conversation_type = "" \/ req.conversation_id = "" \/ req.file_name = ""
               \/ req.sha256.len = 0 \/ req.sha256.len > kSha256HexLength
            THEN err("INVALID_REQUEST", "field is required", NoExtra)
          ELSE IF req.sha256.len # kSha256HexLength
            THEN err("INVALID_SHA256", "sha256 length invalid", NoExtra)
          ELSE IF req.file_size <= 0
            THEN err("INVALID_SIZE", "file_size must be positive", NoExtra)
          ELSE IF rcp.code # "" THEN err(rcp.code, rcp.message, NoExtra)
          ELSE IF ~up.ok
            THEN err(IF req.file_id # "" THEN "RESUME_FAILED" ELSE "OFFER_FAILED", up.error, NoExtra)
          ELSE out(Answer("FileAccept", "ok", "", "",
                          [file_id |-> up.info.file_id, next_offset |-> up.info.uploaded_size,
                           chunk_size |-> config.file_chunk_size]),
                   up, <<>>, FALSE)
     ELSE IF req.type = "FileUploadChunk" THEN
       LET ap == appendChunk(files, file_uploads, file_targets, disk, req.file_id, user_id,
                             req.offset, req.binary, db_fail)
           rs == resumeUpload(files, file_uploads, file_targets, disk, req.file_id, user_id)
       IN IF req.file_id = "" THEN err("INVALID_FILE_ID", "field is required", NoExtra)
          ELSE IF req.binary = <<>> THEN err("EMPTY_CHUNK", "chunk is empty", NoExtra)
          ELSE IF Len(req.binary) > config.file_chunk_size
            THEN err("CHUNK_TOO_LARGE", "chunk too large", NoExtra)
          ELSE IF ~ap.ok
            THEN IF ap.error = "offset mismatch" /\ rs.ok
                   THEN out(Answer(req.type, "error", "UPLOAD_FAILED", ap.error,
                                   [expected_offset |-> rs.info.uploaded_size]),
                            rs, <<>>, FALSE)
                   ELSE out(Answer(req.type, "error", "UPLOAD_FAILED", ap.error, NoExtra),
                            ap, <<>>, FALSE)
          ELSE out(Answer(req.type, "ok", "", "", [next_offset |-> ap.info.uploaded_size]),
                   ap, <<>>, FALSE)
     ELSE IF req.type = "FileUploadDone" THEN
       LET fin == finalizeUpload(files, file_uploads, file_targets, disk, req.file_id, user_id,
                                db_fail)
       IN IF req.file_id = "" THEN err("INVALID_FILE_ID", "field is required", NoExtra)
          ELSE IF ~fin.ok
            THEN out(Answer(req.type, "error", "FINALIZE_FAILED", fin.error, NoExtra),
                     fin, <<>>, FALSE)
          ELSE out(Answer("FileDone", "ok", "", "", FileNoticeMeta(files, req.file_id)),
                   fin, <<>>, TRUE)
     ELSE
       LET rd == readChunk(config, files, file_uploads, file_targets, disk, req.file_id,
                           user_id, req.offset)
       IN IF req.file_id = "" THEN err("INVALID_FILE_ID", "field is required", NoExtra)
          ELSE IF ~rd.ok THEN err("DOWNLOAD_FAILED", rd.error, NoExtra)
          ELSE out(Answer("FileDownloadChunk", "ok", "", "",
                          [file_id |-> req.file_id, offset |-> req.offset,
                           file_size |-> files[req.file_id].file_size,
                           sha256 |-> files[req.file_id].sha256,
                           done |-> req.offset + Len(rd.data) >= files[req.file_id].file_size]),
                   same, rd.data, FALSE)

\* TcpServer::handleFile; db_fail names the store or file-system call of the
\* FileService that fails in this run ("none" when every call succeeds).
handleFile(fd, req, db_fail) ==
  /\ Ready
  /\ fd \in DOMAIN connections_
  /\ req.type \in {"FileOffer", "FileUploadChunk", "FileUploadDone", "FileDownloadRequest"}
  /\ req.type = "FileOffer" => id_seq < Len(IdSeq)
  /\ LET gated == notLoggedIn(sessions_, fd)
         user_id == IF fd \in DOMAIN sessions_ THEN sessions_[fd].user_id ELSE NoUser
         new_id == IdSeq[id_seq + 1]
         run == ~gated /\ req.json_ok
     IN \E call \in {FileCall(req, user_id, new_id, db_fail)} :
        \E ans \in {IF gated
                      THEN Answer(req.type, "error", "NOT_LOGGED_IN", "login required", NoExtra)
                    ELSE IF ~req.json_ok
                      THEN Answer(req.type, "error", "INVALID_JSON", "invalid json", NoExtra)
                    ELSE call.ans} :
        \E c1 \in {IF run /\ ans.type = "FileDownloadChunk"
                     THEN queueWrite(connections_, fd,
                            [type |-> ans.type, request_id |-> req.request_id,
                             meta |-> ans.extra, binary |-> call.data])
                     ELSE sendResponse(connections_, fd, ans.type, req.request_id,
                                       ans.status, ans.code, ans.message, ans.extra)} :
          LET fan == FileFanout(c1, call.r.file_targets, user_to_fd_, files, req.file_id, user_id,
                                listTargets(call.r.file_targets, req.file_id))
              fans == run /\ call.fan
          IN /\ connections_' = IF fans THEN fan.connections ELSE c1
             /\ files' = IF run THEN call.r.files ELSE files
             /\ file_uploads' = IF run THEN call.r.file_uploads ELSE file_uploads
             /\ file_targets' = IF fans THEN fan.file_targets
                                ELSE IF run THEN call.r.file_targets ELSE file_targets
             /\ disk' = IF run THEN call.r.disk ELSE disk
             /\ id_seq' = IF run /\ ans.type = "FileAccept" /\ req.file_id = "" THEN id_seq + 1
                          ELSE id_seq
             /\ acked' = LET seen == IF run /\ req.file_id \in DOMAIN acked
                                            /\ req.file_id \in DOMAIN files
                                            /\ files[req.file_id].uploader_id = user_id
                                         THEN [acked EXCEPT ![req.file_id].dropped = FALSE]
                                         ELSE acked
                         IN IF run /\ ans.type = "FileAccept" /\ req.file_id = ""
                              THEN Put(acked, new_id, [size |-> 0, dropped |-> FALSE])
                            ELSE IF run /\ req.type = "FileUploadChunk" /\ ans.status = "ok"
                              THEN [seen EXCEPT ![req.file_id].size = ans.extra.next_offset]
                            ELSE seen
             /\ last' = Event(req.type, fd, req, IF ans.status = "ok" THEN "ok" ELSE ans.code,
                              ans.message, NoInfo)
  /\ rbuf' = Consumed(fd)
  /\ epoll_out' = Rearmed(fd)
  /\ UNCHANGED <<connection, config, sessions_, user_to_fd_, users, groups, group_members, messages,
                 msg_seq, message_targets, dlog, reading>>

(***************************************************************************)
(* Connection: the write buffer, byte by byte.                               *)
(***************************************************************************)
\* A Connection after its construction.  queued and sent record all bytes
\* passed to queueWrite and all bytes send() has taken; failed is set once
\* flushWrite has returned false.
NoConnection ==
  [write_buffer_ |-> <<>>, write_offset_ |-> 0, queued |-> <<>>, sent |-> <<>>,
   failed |-> FALSE]

\* Connection::queueWrite.
queueWriteBytes(c, data) ==
  IF data = <<>> THEN c
  ELSE [c EXCEPT !.write_buffer_ = @ \o data, !.queued = @ \o data]

\* Connection::flushWrite that clears the buffer and keeps write_offset_.
flushWriteBytesKeepOffset(c, taken, error) ==
  LET offset == c.write_offset_ + taken
      wrote == [c EXCEPT !.write_offset_ = offset,
                         !.sent = @ \o SubSeq(c.write_buffer_, c.write_offset_ + 1, offset)]
  IN IF error THEN [wrote EXCEPT !.failed = TRUE]
     ELSE IF offset >= Len(c.write_buffer_)
       THEN [wrote EXCEPT !.write_buffer_ = <<>>]
     ELSE wrote

\* Connection::flushWrite: the calls of send take taken bytes in all, from
\* write_offset_ on, before send reports EAGAIN (or the buffer is empty), or
\* before it reports another error and flushWrite returns false.
flushWriteBytes(c, taken, error) ==
  LET offset == c.write_offset_ + taken
      wrote == [c EXCEPT !.write_offset_ = offset,
                         !.sent = @ \o SubSeq(c.write_buffer_, c.write_offset_ + 1, offset)]
  IN IF error THEN [wrote EXCEPT !.failed = TRUE]
     ELSE IF offset >= Len(c.write_buffer_)
       THEN [wrote EXCEPT !.write_buffer_ = <<>>, !.write_offset_ = 0]
     ELSE wrote

\* Connection::hasPendingWrite.
hasPendingWrite(c) == c.write_offset_ < Len(c.write_buffer_)

(***************************************************************************)
(* The client program: FileTransferManager.  One request is on its way at   *)
(* a time; the step of a request is the round trip: the request is sent,     *)
(* the server handles it, and the manager handles the answer.                *)
(***************************************************************************)
\* A DownloadTask and the .part file of its download; failed holds the
\* message of markDownloadFailed, start the offset the task began at and
\* requests the requests sent for it.
NoDownloadTask ==
  [active |-> FALSE, file_id |-> "", file_size |-> 0, sha256 |-> NoDigest, next_offset |-> 0,
   start |-> 0, part |-> <<>>, requests |-> 0, done |-> FALSE, failed |-> ""]

\* An UploadTask.
NoUploadTask ==
  [request_id |-> 0, file_id |-> "", file_size |-> 0, next_offset |-> 0, chunk_size |-> 0,
   done |-> FALSE, failed |-> FALSE]

\* The uploads of a FileTransferManager: pending_offers_ (request_id -> task),
\* uploads_ (file_id -> task), upload_request_map_ (request_id -> file_id); the
\* NetClient below it: fd, the server's descriptor of its connection (0 when
\* it has none), next_id, the value of nextRequestId(), and outbox, the
\* requests sent that the server has not handled yet; drops counts the
\* connections it has lost.
NoUploads ==
  [pending_offers_ |-> EmptyMap, uploads_ |-> EmptyMap, upload_request_map_ |-> EmptyMap,
   outbox |-> <<>>, fd |-> 0, next_id |-> 1, drops |-> 0]

NoClient == [download |-> NoDownloadTask, upload |-> NoUploads]

\* FileTransferManager::beginDownload for the file of a notice: a .part file
\* that is there and shorter than the file is continued, else it is
\* truncated.
beginDownload(task, request) ==
  LET existing == IF task.file_id = request.file_id THEN Len(task.part) ELSE 0
      offset == IF existing > 0 /\ existing < request.file_size THEN existing ELSE 0
  IN IF request.file_id = "" \/ request.file_size <= 0 \/ request.sha256.len = 0 THEN task
     ELSE [active |-> TRUE, file_id |-> request.file_id, file_size |-> request.file_size,
           sha256 |-> request.sha256, next_offset |-> offset, start |-> offset,
           part |-> IF offset = 0 THEN <<>> ELSE task.part,
           requests |-> 0, done |-> FALSE, failed |-> ""]

\* FileTransferManager::handleDownloadChunk.
handleDownloadChunk(task, packet) ==
  LET offset == packet.meta.offset
      next_offset == offset + Len(packet.binary)
      written == IF offset = 0 THEN packet.binary ELSE WriteAt(task.part, offset, packet.binary)
      moved == [task EXCEPT !.next_offset = next_offset, !.part = written]
  IN IF packet.meta.file_id # task.file_id \/ ~task.active THEN task
     ELSE IF offset # task.next_offset THEN [task EXCEPT !.failed = "download offset mismatch"]
     ELSE IF packet.binary = <<>> /\ ~packet.meta.done
       THEN [task EXCEPT !.failed = "download chunk empty"]
     ELSE IF packet.meta.done \/ next_offset >= task.file_size
       THEN IF sha256Hex(written) # task.sha256 THEN [moved EXCEPT !.failed = "sha256 mismatch"]
            ELSE [moved EXCEPT !.done = TRUE]
     ELSE moved

\* FileTransferManager::handlePacket for the answer to a download request:
\* an answer with a status other than ok marks the download failed.
handleDownloadAnswer(task, packet) ==
  IF packet.type = "FileDownloadRequest"
    THEN [task EXCEPT !.failed = packet.meta.message]
  ELSE IF packet.type = "FileDownloadChunk" THEN handleDownloadChunk(task, packet)
  ELSE task

\* The keys of a map of request ids, in ascending order.
RECURSIVE KeysInOrder(_)
KeysInOrder(S) == IF S = {} THEN <<>> ELSE <<Min(S)>> \o KeysInOrder(S \ {Min(S)})

\* FileTransferManager::sendFileOffer for the file the client uploads to bob.
sendFileOffer(up, task, req_id) ==
  [up EXCEPT !.outbox = Append(@, [type |-> "FileOffer", request_id |-> req_id,
                                   json_ok |-> TRUE, conversation_type |-> "private",
                                   conversation_id |-> "bob", file_name |-> "a.txt",
                                   file_size |-> task.file_size,
                                   sha256 |-> sha256Hex(FileContent),
                                   file_id |-> task.file_id])]

\* FileTransferManager::beginUpload of the file FileContent, with no file_id.
beginUpload(up) ==
  LET req_id == up.next_id
      task == [NoUploadTask EXCEPT !.request_id = req_id, !.file_size = Len(FileContent)]
  IN [sendFileOffer(up, task, req_id) EXCEPT !.pending_offers_ = Put(@, req_id, task),
                                             !.next_id = req_id + 1]

\* FileTransferManager::eraseUploadMapping.
eraseUploadMapping(map, file_id) ==
  [k \in {j \in DOMAIN map : map[j] # file_id} |-> map[k]]

\* FileTransferManager::markUploadFailed.
markUploadFailed(up, file_id) ==
  IF file_id \in DOMAIN up.uploads_ THEN [up EXCEPT !.uploads_[file_id].failed = TRUE] ELSE up

\* FileTransferManager::sendUploadDone.
sendUploadDone(up, task) ==
  [up EXCEPT !.outbox = Append(@, [type |-> "FileUploadDone", request_id |-> task.request_id,
                                   json_ok |-> TRUE, file_id |-> task.file_id])]

\* FileTransferManager::sendNextChunk: the bytes of the file from next_offset
\* on, chunk_size of them at most.
sendNextChunk(up, task) ==
  LET to_read == Min({task.file_size - task.next_offset, task.chunk_size})
  IN IF task.chunk_size <= 0 THEN up
     ELSE IF task.next_offset >= task.file_size THEN sendUploadDone(up, task)
     ELSE [up EXCEPT !.outbox =
             Append(@, [type |-> "FileUploadChunk", request_id |-> task.request_id,
                        json_ok |-> TRUE, file_id |-> task.file_id,
                        offset |-> task.next_offset,
                        binary |-> SubSeq(FileContent, task.next_offset + 1,
                                          task.next_offset + to_read)])]

\* FileTransferManager::resumeTransfers, one of its two loops: a FileOffer
\* with the task's file_id under a new request id for every task that is
\* neither failed nor done; the loop over uploads_ also renews the task's
\* request id and erases the mapping of the old one.
RECURSIVE Reoffer(_, _, _)
Reoffer(up, tasks, from_uploads) ==
  IF tasks = <<>> THEN up
  ELSE LET task == Head(tasks)
           req_id == up.next_id
           renewed == [task EXCEPT !.request_id = req_id]
           sent == sendFileOffer(up, task, req_id)
       IN IF task.failed \/ task.done THEN Reoffer(up, Tail(tasks), from_uploads)
          ELSE Reoffer([sent EXCEPT
                          !.pending_offers_ = Put(@, req_id, renewed),
                          !.next_id = req_id + 1,
                          !.uploads_ = IF from_uploads THEN Put(@, task.file_id, renewed) ELSE @,
                          !.upload_request_map_ =
                            IF from_uploads THEN eraseUploadMapping(@, task.file_id) ELSE @],
                       Tail(tasks), from_uploads)

\* FileTransferManager::resumeTransfers: the pending offers are offered
\* again, then the tasks of uploads_.
resumeTransfers(up) ==
  LET keys == KeysInOrder(DOMAIN up.pending_offers_)
      pending == [i \in 1..Len(keys) |-> up.pending_offers_[keys[i]]]
      again == Reoffer([up EXCEPT !.pending_offers_ = EmptyMap], pending, FALSE)
      ids == SelectSeq(IdSeq, LAMBDA f : f \in DOMAIN again.uploads_)
  IN Reoffer(again, [i \in 1..Len(ids) |-> again.uploads_[ids[i]]], TRUE)

\* FileTransferManager::handleFileAccept.
handleFileAccept(up, request_id, meta) ==
  LET erased == [up EXCEPT !.pending_offers_ = Erase(@, request_id)]
      task == [up.pending_offers_[request_id] EXCEPT
                 !.file_id = meta.extra.file_id,
                 !.next_offset = meta.extra.next_offset,
                 !.chunk_size = meta.extra.chunk_size]
  IN IF meta.status # "ok" THEN erased
     ELSE IF request_id \notin DOMAIN up.pending_offers_ THEN up
     ELSE IF task.file_id = "" \/ task.chunk_size <= 0 THEN erased
     ELSE sendNextChunk([erased EXCEPT
                           !.uploads_ = Put(@, task.file_id, task),
                           !.upload_request_map_ = Put(@, task.request_id, task.file_id)],
                        task)

\* FileTransferManager::handleUploadAck.
handleUploadAck(up, request_id, meta) ==
  LET file_id == up.upload_request_map_[request_id]
      task == up.uploads_[file_id]
      expected == IF "expected_offset" \in DOMAIN meta.extra
                    THEN meta.extra.expected_offset ELSE task.next_offset
      moved == [task EXCEPT !.next_offset = meta.extra.next_offset]
      kept == [up EXCEPT !.uploads_[file_id] = moved]
  IN IF request_id \notin DOMAIN up.upload_request_map_ THEN up
     ELSE IF file_id \notin DOMAIN up.uploads_ THEN up
     ELSE IF meta.status # "ok"
       THEN [up EXCEPT !.uploads_[file_id] = [task EXCEPT !.failed = TRUE,
                                                           !.next_offset = expected],
                       !.upload_request_map_ = Erase(@, request_id)]
     ELSE IF moved.next_offset >= moved.file_size THEN sendUploadDone(kept, moved)
     ELSE sendNextChunk(kept, moved)

\* FileTransferManager::handlePacket for the answers to the requests of an
\* upload.
handleUploadPacket(up, packet) ==
  LET request_id == packet.request_id
      failed == packet.meta.status # "ok"
  IN IF failed /\ packet.type = "FileOffer"
       THEN IF request_id \in DOMAIN up.pending_offers_
              THEN [markUploadFailed(up, up.pending_offers_[request_id].file_id) EXCEPT
                      !.pending_offers_ = Erase(@, request_id)]
              ELSE up
     ELSE IF failed /\ packet.type = "FileUploadDone"
       THEN IF request_id \in DOMAIN up.upload_request_map_
              THEN [markUploadFailed(up, up.upload_request_map_[request_id]) EXCEPT
                      !.upload_request_map_ =
                        eraseUploadMapping(@, up.upload_request_map_[request_id])]
              ELSE up
     ELSE IF packet.type = "FileAccept" THEN handleFileAccept(up, request_id, packet.meta)
     ELSE IF packet.type = "FileUploadChunk" THEN handleUploadAck(up, request_id, packet.meta)
     ELSE IF packet.type = "FileDone"
       THEN IF packet.meta.extra.file_id \in DOMAIN up.uploads_
              THEN [up EXCEPT !.uploads_[packet.meta.extra.file_id].done = TRUE,
                              !.upload_request_map_ =
                                eraseUploadMapping(@, packet.meta.extra.file_id)]
              ELSE up
     ELSE up

(***************************************************************************)
(* Metadata.  The metadata of a frame is a JSON text; the texts below are   *)
(* the ones the clients of the model send, as ASCII bytes.                   *)
(***************************************************************************)
\* {"user_id":"alice","password":"p1"}
JsonLogin ==
  <<123, 34, 117, 115, 101, 114, 95, 105, 100, 34, 58, 34, 97, 108, 105, 99, 101, 34,
    44, 34, 112, 97, 115, 115, 119, 111, 114, 100, 34, 58, 34, 112, 49, 34, 125>>
\* {"user_id":"bob","password":"p1"}
JsonLoginBob ==
  <<123, 34, 117, 115, 101, 114, 95, 105, 100, 34, 58, 34, 98, 111, 98, 34, 44, 34, 112,
    97, 115, 115, 119, 111, 114, 100, 34, 58, 34, 112, 49, 34, 125>>
JsonEmptyObject == <<123, 125>>       \* {}
JsonArray == <<91, 93>>               \* []
JsonBroken == <<123>>                 \* {

\* parseJson: nlohmann::json::parse inside try/catch.  A text that is no JSON
\* document fails; a document need not be an object.
parseJson(text) ==
  IF text = JsonLogin
    THEN [ok |-> TRUE, is_object |-> TRUE,
          value |-> [user_id |-> "alice", password |-> "p1"]]
  ELSE IF text = JsonLoginBob
    THEN [ok |-> TRUE, is_object |-> TRUE,
          value |-> [user_id |-> "bob", password |-> "p1"]]
  ELSE IF text = JsonEmptyObject THEN [ok |-> TRUE, is_object |-> TRUE, value |-> <<>>]
  ELSE IF text = JsonArray THEN [ok |-> TRUE, is_object |-> FALSE, value |-> <<>>]
  ELSE [ok |-> FALSE, is_object |-> FALSE, value |-> <<>>]

\* meta.value(key, default) on an object.
Value(obj, key, default) == IF key \in DOMAIN obj THEN obj[key] ELSE default

\* The fields the handlers read off the metadata of a packet with
\* meta.value(key, default), and its binary part.
Request(packet) ==
  LET meta == parseJson(packet.meta_json)
      obj == IF meta.ok /\ meta.is_object THEN meta.value ELSE <<>>
  IN [type |-> PacketTypeName(packet.header.type),
      request_id |-> packet.header.request_id,
      json_ok |-> meta.ok,
      is_object |-> meta.is_object,
      user_id |-> Value(obj, "user_id", ""),
      nickname |-> Value(obj, "nickname", ""),
      password |-> Value(obj, "password", ""),
      name |-> Value(obj, "name", ""),
      group_id |-> Value(obj, "group_id", ""),
      action |-> Value(obj, "action", ""),
      target_user_id |-> Value(obj, "target_user_id", ""),
      conversation_type |-> Value(obj, "conversation_type", ""),
      conversation_id |-> Value(obj, "conversation_id", ""),
      content |-> Value(obj, "content", ""),
      file_name |-> Value(obj, "file_name", ""),
      file_size |-> Value(obj, "file_size", 0),
      sha256 |-> Value(obj, "sha256", NoDigest),
      file_id |-> Value(obj, "file_id", ""),
      offset |-> Value(obj, "offset", 0),
      binary |-> packet.binary]

\* The types processPackets has a case for.
AuthTypes == {"AuthRegister", "AuthLogin"}
GroupTypes == {"GroupCreate", "GroupJoin", "GroupLeave", "GroupAdmin"}
FileTypes == {"FileOffer", "FileUploadChunk", "FileUploadDone", "FileDownloadRequest"}
DispatchedTypes == AuthTypes \cup GroupTypes \cup {"MessageSend"} \cup FileTypes

\* The handler of req reaches a meta.value(key, default) with metadata that
\* parsed to a document that is no object: nlohmann::json throws type_error,
\* which no handler catches.
Throws(fd, req) ==
  /\ req.type \in DispatchedTypes
  /\ req.json_ok
  /\ ~req.is_object
  /\ req.type \in AuthTypes \/ ~notLoggedIn(sessions_, fd)

(***************************************************************************)
(* The reactor around the handlers: TcpServer::run, handleRead and           *)
(* processPackets.                                                           *)
(***************************************************************************)
\* TcpServer::handleRead up to the call of processPackets: what recv
\* returned is appended to the read buffer of the connection.
handleRead(fd, chunk) ==
  /\ reading = 0
  /\ \A f \in DOMAIN connections_ : Len(connections_[f]) <= MaxPending
  /\ fd \in DOMAIN connections_
  /\ chunk # <<>>
  /\ rbuf' = [rbuf EXCEPT ![fd] = @ \o chunk]
  /\ reading' = fd
  /\ last' = Event("read", fd, NoReq, "", "", NoInfo)
  /\ UNCHANGED <<connection, client, config, connections_, sessions_, user_to_fd_, store, disk, acked, dlog,
                 epoll_out>>

\* The default branch of the switch in processPackets: the frame was
\* consumed by the decoder and a line is logged.
unhandled(fd, req) ==
  /\ rbuf' = Consumed(fd)
  /\ last' = Event("unhandled", fd, req, "", "", NoInfo)
  /\ UNCHANGED <<connection, client, config, connections_, sessions_, user_to_fd_, store, disk, acked, dlog,
                 epoll_out, reading>>

\* An exception leaves the handler, processPackets and run(); main catches
\* it, prints "fatal error" and returns 1: the process and its sockets end.
terminate(fd, req) ==
  /\ reading' = -1
  /\ connections_' = EmptyMap
  /\ sessions_' = EmptyMap
  /\ user_to_fd_' = EmptyMap
  /\ rbuf' = EmptyMap
  /\ epoll_out' = EmptyMap
  /\ dlog' = [f \in DOMAIN dlog |-> <<>>]
  /\ last' = Event("fatal error", fd, req, "", "", NoInfo)
  /\ UNCHANGED <<connection, client, config, store, disk, acked>>

\* The end of a read event whose buffer holds no whole frame: processPackets
\* returns true, and run() sets the write interest to hasPendingWrite().
waitForMore(fd) ==
  /\ reading' = 0
  /\ epoll_out' = updateEpollEvents(epoll_out, fd, connections_[fd] # <<>>)
  /\ last' = Event("wait", fd, NoReq, "", "", NoInfo)
  /\ UNCHANGED <<connection, client, config, connections_, sessions_, user_to_fd_, store, disk, acked, dlog, rbuf>>

\* One turn of the loop of TcpServer::processPackets on the connection that
\* is being read.
processPackets(fd) ==
  /\ reading = fd
  /\ LET dec == tryDecodePacket(rbuf[fd])
         req == Request(dec.packet)
     IN IF ~dec.ok /\ dec.error # "" THEN disconnect(fd)
        ELSE IF ~dec.ok THEN waitForMore(fd)
        ELSE IF Throws(fd, req) THEN terminate(fd, req)
        ELSE IF req.type = "AuthRegister" THEN handleRegister(fd, req)
        ELSE IF req.type = "AuthLogin" THEN handleLogin(fd, req, "none", "none")
        ELSE IF req.type \in GroupTypes THEN handleGroup(fd, req, 0)
        ELSE IF req.type = "MessageSend" THEN handleMessage(fd, req, 0, FALSE)
        ELSE IF req.type \in FileTypes THEN handleFile(fd, req, "none") /\ UNCHANGED client
        ELSE unhandled(fd, req)

(***************************************************************************)
(* Requests a client can put in a frame.                                   *)
(***************************************************************************)
RegisterRequests(U, P) ==
  [type : {"AuthRegister"}, request_id : RequestIds, json_ok : {TRUE},
   user_id : U, nickname : {"nick"}, password : P]
  \cup [type : {"AuthRegister"}, request_id : RequestIds, json_ok : {FALSE},
        user_id : {""}, nickname : {""}, password : {""}]

LoginRequests(U, P) ==
  [type : {"AuthLogin"}, request_id : RequestIds, json_ok : {TRUE}, user_id : U, password : P]
  \cup [type : {"AuthLogin"}, request_id : RequestIds, json_ok : {FALSE},
        user_id : {""}, password : {""}]

DrainFailures == {"none", "fetch", "mark"}

GroupRequests(names, ids, targets) ==
  [type : {"GroupCreate"}, request_id : RequestIds, json_ok : {TRUE}, name : names]
  \cup [type : {"GroupJoin", "GroupLeave"}, request_id : RequestIds, json_ok : {TRUE},
        group_id : ids]
  \cup [type : {"GroupAdmin"}, request_id : RequestIds, json_ok : {TRUE}, group_id : ids,
        action : {"rename", "kick", "dissolve", "promote", "demote"},
        name : names, target_user_id : targets]

MessageRequests(types, ids, contents) ==
  [type : {"MessageSend"}, request_id : RequestIds, json_ok : {TRUE},
   conversation_type : types, conversation_id : ids, content : contents]

\* The contents a file of the model can have, up to MaxFileSize bytes.
Contents == UNION {[1..n -> Bytes] : n \in 0..MaxFileSize}

OfferRequests(types, ids, sizes, digests, file_ids) ==
  [type : {"FileOffer"}, request_id : RequestIds, json_ok : {TRUE},
   conversation_type : types, conversation_id : ids, file_name : {"a.txt"},
   file_size : sizes, sha256 : digests, file_id : file_ids]

ChunkRequests(file_ids, offsets, chunks) ==
  [type : {"FileUploadChunk"}, request_id : RequestIds, json_ok : {TRUE},
   file_id : file_ids, offset : offsets, binary : chunks]

DoneRequests(file_ids) ==
  [type : {"FileUploadDone"}, request_id : RequestIds, json_ok : {TRUE}, file_id : file_ids]

DownloadRequests(file_ids, offsets) ==
  [type : {"FileDownloadRequest"}, request_id : RequestIds, json_ok : {TRUE},
   file_id : file_ids, offset : offsets]

(***************************************************************************)
(* Initial states.  The server starts with no connection; its database is  *)
(* the file at db_path, empty on a first start.                            *)
(***************************************************************************)
InitMemory ==
  /\ sessions_ = EmptyMap
  /\ user_to_fd_ = EmptyMap
  /\ connections_ = EmptyMap
  /\ last = Event("start", 0, NoReq, "", "", NoInfo)
  /\ dlog = [fd \in Fds |-> <<>>]
  /\ acked = EmptyMap
  /\ rbuf = EmptyMap
  /\ epoll_out = EmptyMap
  /\ reading = 0
  /\ client = NoClient
  /\ connection = NoConnection

InitEmptyStore ==
  /\ users = EmptyMap
  /\ groups = EmptyMap
  /\ group_members = EmptyMap
  /\ messages = EmptyMap
  /\ msg_seq = 0
  /\ message_targets = EmptyMap
  /\ files = EmptyMap
  /\ file_uploads = EmptyMap
  /\ file_targets = EmptyMap
  /\ id_seq = 0
  /\ disk = EmptyMap

Config(page, clients, chunk) ==
  [history_page_size |-> page, max_clients |-> clients, file_chunk_size |-> chunk]

(***************************************************************************)
(* SpecSession: the session registry under accept, register, login and     *)
(* disconnect.                                                             *)
(***************************************************************************)
InitSession ==
  /\ config = Config(1, MaxFds, 1)
  /\ InitMemory
  /\ InitEmptyStore

NextSession ==
  \/ \E fd \in Fds : acceptConnections(fd)
  \/ \E fd \in Fds : disconnect(fd)
  \/ \E fd \in Fds : \E k \in 1..(MaxPending + 4) : flushWrite(fd, k)
  \/ \E fd \in Fds : \E req \in RegisterRequests({"alice", "bob"}, {"p1"}) :
       handleRegister(fd, req)
  \/ \E fd \in Fds : \E req \in LoginRequests({"alice", "bob"}, {"p1", "p2"}) :
       handleLogin(fd, req, "none", "none")

SpecSession == InitSession /\ [][NextSession]_vars

(***************************************************************************)
(* SpecCap: the session registry under each max_clients up to MaxFds, so    *)
(* that connections arrive while the server is at its cap.                  *)
(***************************************************************************)
InitCap ==
  /\ config \in {Config(1, clients, 1) : clients \in 1..MaxFds}
  /\ InitMemory
  /\ InitEmptyStore

SpecCap == InitCap /\ [][NextSession]_vars

(***************************************************************************)
(* A database left by an earlier run of the server: the users of U          *)
(* registered with password p1, and, when G is not empty, the group g0      *)
(* created by the first user of G and joined by the others.                 *)
(***************************************************************************)
RECURSIVE RegisterAll(_, _)
RegisterAll(tbl, list) ==
  IF list = <<>> THEN tbl
  ELSE RegisterAll(registerUser(tbl, Head(list), Nick(Head(list)), "p1").users, Tail(list))

RECURSIVE JoinAll(_, _, _, _)
JoinAll(g, gm, list, group_id) ==
  IF list = <<>> THEN gm
  ELSE JoinAll(g, joinGroup(g, gm, EmptyMap, EmptyMap, Head(list), group_id).group_members,
               Tail(list), group_id)

InitStore(U, G) ==
  LET owner == G[1]
      made == createGroup(EmptyMap, EmptyMap, EmptyMap, EmptyMap, owner, "team", "g0")
  IN /\ users = RegisterAll(EmptyMap, UsersInOrder(U))
     /\ groups = IF G = <<>> THEN EmptyMap ELSE made.groups
     /\ group_members = IF G = <<>> THEN EmptyMap
                        ELSE JoinAll(made.groups, made.group_members, Tail(G), "g0")
     /\ messages = EmptyMap
     /\ msg_seq = 0
     /\ message_targets = EmptyMap
     /\ files = EmptyMap
     /\ file_uploads = EmptyMap
     /\ file_targets = EmptyMap
     /\ id_seq = 0
     /\ disk = EmptyMap

(***************************************************************************)
(* SpecGate: every handler behind the login test, on connections that are  *)
(* logged in and on connections that are not.                              *)
(***************************************************************************)
InitGate ==
  /\ config = Config(1, MaxFds, 1)
  /\ InitMemory
  /\ InitStore({"alice", "bob"}, <<>>)

NextGate ==
  \/ \E fd \in Fds : acceptConnections(fd)
  \/ \E fd \in Fds : disconnect(fd)
  \/ \E fd \in Fds : \E k \in 1..(MaxPending + 4) : flushWrite(fd, k)
  \/ \E fd \in Fds : \E req \in LoginRequests({"alice"}, {"p1"}) :
       handleLogin(fd, req, "none", "none")
  \/ \E fd \in Fds : \E req \in GroupRequests({"team"}, {"id1"}, {"bob"}) : handleGroup(fd, req, 0)
  \/ \E fd \in Fds : \E req \in MessageRequests({"private"}, {"bob"}, {"hi"}) :
       handleMessage(fd, req, 0, FALSE)
  \/ \E fd \in Fds :
       \E req \in OfferRequests({"private"}, {"bob"}, {1}, {sha256Hex(<<"x">>)}, {""})
                    \cup ChunkRequests(Ids, {0}, {<<"x">>})
                    \cup DoneRequests(Ids)
                    \cup DownloadRequests(Ids, {0}) :
         handleFile(fd, req, "none") /\ UNCHANGED client

SpecGate == InitGate /\ [][NextGate]_vars

(***************************************************************************)
(* SpecMsg: three registered users, the group g0 they are all members of,  *)
(* and messages between them, with the failures the store can report.      *)
(***************************************************************************)
InitMsg ==
  /\ config = Config(1, MaxFds, 1)
  /\ InitMemory
  /\ InitStore({"alice", "bob", "carol"}, <<"carol", "alice", "bob">>)

NextMsg ==
  \/ \E fd \in Fds : acceptConnections(fd)
  \/ \E fd \in Fds : disconnect(fd)
  \/ \E fd \in Fds : \E k \in 1..(MaxPending + 4) : flushWrite(fd, k)
  \/ \E fd \in Fds : \E req \in LoginRequests({"alice", "bob", "carol"}, {"p1"}) :
       handleLogin(fd, req, "none", "none")
  \/ /\ msg_seq < MaxFanoutMsgs
     /\ \E fd \in Fds :
          \E req \in MessageRequests({"private"}, {"alice"}, {"hi"})
                       \cup MessageRequests({"group"}, {"g0"}, {"hi"}) :
            \E fail_at \in {0, 2} : handleMessage(fd, req, fail_at, FALSE)

SpecMsg == InitMsg /\ [][NextMsg]_vars

(***************************************************************************)
(* SpecDrain: two registered users, private messages and files for alice,  *)
(* and logins whose drains meet every failure the store can report, under  *)
(* each history_page_size up to MaxPageSize.                               *)
(***************************************************************************)
InitDrain ==
  /\ config \in {Config(page, MaxFds, 1) : page \in 1..MaxPageSize}
  /\ InitMemory
  /\ InitStore({"alice", "bob"}, <<>>)

NextDrain ==
  \/ \E fd \in Fds : acceptConnections(fd)
  \/ \E fd \in Fds : disconnect(fd)
  \/ \E fd \in DOMAIN connections_ : flushWrite(fd, Len(connections_[fd]))
  \/ \E fd \in Fds : \E req \in LoginRequests({"alice", "bob"}, {"p1"}) :
       \E fail \in {<<"none", "none">>, <<"fetch", "mark">>, <<"mark", "fetch">>} :
         handleLogin(fd, req, fail[1], fail[2])
  \/ \E fd \in Fds : \E req \in MessageRequests({"private"}, {"alice"}, {"hi"}) :
       handleMessage(fd, req, 0, FALSE)
  \/ /\ id_seq < MaxDrainFiles
     /\ \E fd \in Fds :
          \E req \in OfferRequests({"private"}, {"alice"}, {1}, {sha256Hex(<<"x">>)}, {""}) :
            handleFile(fd, req, "none") /\ UNCHANGED client
  \/ \E fd \in Fds : \E req \in ChunkRequests({IdSeq[1]}, {0}, {<<"x">>}) \cup DoneRequests({IdSeq[1]}) :
       handleFile(fd, req, "none") /\ UNCHANGED client

SpecDrain == InitDrain /\ [][NextDrain]_vars

(***************************************************************************)
(* SpecFile: the two-phase upload.  alice, bob and carol are registered;    *)
(* alice offers bob a file of MaxFileSize bytes, and any of the three sends *)
(* its chunks of one byte, resumes it, finalizes it and downloads it, with  *)
(* the failures the store and the file system can report.                   *)
(***************************************************************************)
InitFile ==
  /\ config = Config(1, MaxFds, 1)
  /\ InitMemory
  /\ InitStore({"alice", "bob", "carol"}, <<>>)

NextFile ==
  \/ \E fd \in Fds : acceptConnections(fd)
  \/ \E fd \in Fds : disconnect(fd)
  \/ \E fd \in DOMAIN connections_ : flushWrite(fd, Len(connections_[fd]))
  \/ \E fd \in Fds : \E req \in LoginRequests({"alice", "bob", "carol"}, {"p1"}) :
       handleLogin(fd, req, "none", "none")
  \/ /\ id_seq < MaxUploads
     /\ \E fd \in Fds :
          \E req \in OfferRequests({"private"}, {"bob"}, {MaxFileSize},
                                   {sha256Hex(FileContent)}, {""}) :
            LoggedInAs(fd, "alice") /\ handleFile(fd, req, "none") /\ UNCHANGED client
  \/ \E fd \in Fds :
       \E req \in OfferRequests({"private"}, {"bob"}, {MaxFileSize},
                                {sha256Hex(FileContent)}, {IdSeq[1]}) :
         handleFile(fd, req, "none") /\ UNCHANGED client
  \/ \E fd \in Fds :
       \E req \in ChunkRequests({IdSeq[1]}, {0}, {<<"x">>})
                    \cup ChunkRequests({IdSeq[1]}, 1..(MaxFileSize - 1), {<<"x">>, <<"y">>}) :
         \E db_fail \in {"none", "update"} : handleFile(fd, req, db_fail) /\ UNCHANGED client
  \/ \E fd \in Fds : \E req \in DoneRequests({IdSeq[1]}) :
       \E db_fail \in {"none", "rename", "delete"} : handleFile(fd, req, db_fail) /\ UNCHANGED client
  \/ \E fd \in Fds : \E req \in DownloadRequests({IdSeq[1]}, {0}) :
       handleFile(fd, req, "none") /\ UNCHANGED client

SpecFile == InitFile /\ [][NextFile]_vars

(***************************************************************************)
(* SpecDownload: a file that alice uploaded for bob in an earlier run is     *)
(* Stored, under each size up to MaxStoredSize and each file_chunk_size up   *)
(* to MaxChunkSize; a client downloads it chunk by chunk, and anyone asks    *)
(* for any offset.                                                           *)
(***************************************************************************)
\* The user starts the download of the file of a notice: beginDownload, whose
\* first request is then on its way.  A download that failed can be started
\* again.
startDownload(file_id) ==
  /\ reading = 0
  /\ ~client.download.active \/ client.download.failed # ""
  /\ file_id \in DOMAIN files
  /\ LET started == beginDownload(client.download,
                                  [file_id |-> file_id, file_size |-> files[file_id].file_size,
                                   sha256 |-> files[file_id].sha256])
     IN /\ started.active
        /\ client' = [client EXCEPT !.download = started]
  /\ UNCHANGED <<connection, config, connections_, sessions_, user_to_fd_, users, groups, group_members,
                 messages, msg_seq, message_targets, files, file_uploads, file_targets,
                 id_seq, disk, last, dlog, acked, rbuf, epoll_out, reading>>

\* The round trip of the request that is on its way (sendDownloadRequest):
\* the server handles it on the connection fd and the manager handles the
\* answer, which sends the next request unless the task is over.
continueDownload(fd) ==
  /\ client.download.active
  /\ ~client.download.done
  /\ client.download.failed = ""
  /\ \E req \in DownloadRequests({client.download.file_id}, {client.download.next_offset}) :
       /\ handleFile(fd, req, "none")
       /\ client' = [client EXCEPT !.download =
                       handleDownloadAnswer([client.download EXCEPT !.requests = @ + 1],
                                            connections_'[fd][Len(connections_'[fd])])]

StoredContent(size) == [i \in 1..size |-> IF i % 2 = 1 THEN "x" ELSE "y"]

\* The tables and files after createUpload, appendChunk and finalizeUpload
\* of content under the id f0.
StoredFile(content) ==
  LET offer == [conversation_type |-> "private", conversation_id |-> "bob",
                file_name |-> "a.txt", file_size |-> Len(content),
                sha256 |-> sha256Hex(content), uploader_id |-> "alice",
                recipients |-> <<"bob">>]
      made == createUpload(EmptyMap, EmptyMap, EmptyMap, EmptyMap, offer, "f0", 1)
      sent == appendChunk(made.files, made.file_uploads, made.file_targets, made.disk,
                          "f0", "alice", 0, content, "none")
  IN finalizeUpload(sent.files, sent.file_uploads, sent.file_targets, sent.disk,
                    "f0", "alice", "none")

InitDownload ==
  /\ config \in {Config(1, MaxFds, chunk) : chunk \in 1..MaxChunkSize}
  /\ InitMemory
  /\ users = RegisterAll(EmptyMap, UsersInOrder({"alice", "bob", "carol"}))
  /\ groups = EmptyMap
  /\ group_members = EmptyMap
  /\ messages = EmptyMap
  /\ msg_seq = 0
  /\ message_targets = EmptyMap
  /\ id_seq = 0
  /\ \E size \in 1..MaxStoredSize :
       LET stored == StoredFile(StoredContent(size))
       IN /\ files = stored.files
          /\ file_uploads = stored.file_uploads
          /\ file_targets = stored.file_targets
          /\ disk = stored.disk

NextDownload ==
  \/ \E fd \in Fds : acceptConnections(fd)
  \/ \E fd \in Fds : disconnect(fd)
  \/ \E fd \in DOMAIN connections_ : flushWrite(fd, Len(connections_[fd]))
  \/ \E fd \in Fds : \E req \in LoginRequests({"bob", "carol"}, {"p1"}) :
       handleLogin(fd, req, "none", "none")
  \/ \E fd \in Fds : \E req \in DownloadRequests({"f0"}, -1..MaxStoredSize) :
       handleFile(fd, req, "none") /\ UNCHANGED client
  \/ startDownload("f0")
  \/ \E fd \in Fds : continueDownload(fd)

SpecDownload == InitDownload /\ [][NextDownload]_vars

(***************************************************************************)
(* SpecWrite: one Connection; strings of up to MaxWriteLen bytes are queued  *)
(* on it, MaxQueued bytes in all, and flushWrite is called in between, with  *)
(* send taking any number of the bytes that wait.                            *)
(***************************************************************************)
Strings == UNION {[1..n -> Bytes] : n \in 0..MaxWriteLen}

\* A handler queues a string on the connection.
QueueWrite(data) ==
  /\ ~connection.failed
  /\ Len(connection.queued) + Len(data) <= MaxQueued
  /\ connection' = queueWriteBytes(connection, data)
  /\ last' = Event("queueWrite", 0, NoReq, "", "", NoInfo)
  /\ UNCHANGED <<client, config, sessions_, user_to_fd_, connections_, store, disk, dlog,
                 acked, rbuf, epoll_out, reading>>

\* The reactor calls flushWrite.  An error of send other than EAGAIN ends
\* the call with whatever send has taken before it.
FlushWrite(taken, error) ==
  /\ ~connection.failed
  /\ taken <= Len(connection.write_buffer_) - connection.write_offset_
  /\ connection' = flushWriteBytes(connection, taken, error)
  /\ last' = Event("flushWrite", 0, NoReq, IF error THEN "error" ELSE "", "", NoInfo)
  /\ UNCHANGED <<client, config, sessions_, user_to_fd_, connections_, store, disk, dlog,
                 acked, rbuf, epoll_out, reading>>

InitWrite ==
  /\ config = Config(1, MaxFds, 1)
  /\ InitMemory
  /\ InitEmptyStore

NextWrite ==
  \/ \E data \in Strings : QueueWrite(data)
  \/ \E taken \in 0..MaxQueued : \E error \in BOOLEAN : FlushWrite(taken, error)

SpecWrite == InitWrite /\ [][NextWrite]_vars

(***************************************************************************)
(* SpecUpload: alice's client uploads the file FileContent for bob, chunk by *)
(* chunk.  Its connection can be closed, MaxDrops times; the client then      *)
(* logs in again on a new connection and calls resumeTransfers.               *)
(***************************************************************************)
\* The client has logged in as alice on the connection fd and calls
\* resumeTransfers, which does nothing on the first connection.
connectClient(fd) ==
  /\ reading = 0
  /\ client.upload.fd = 0
  /\ LoggedInAs(fd, "alice")
  /\ client' = [client EXCEPT !.upload = resumeTransfers([@ EXCEPT !.fd = fd])]
  /\ UNCHANGED <<connection, config, connections_, sessions_, user_to_fd_, store, disk, last,
                 dlog, acked, rbuf, epoll_out, reading>>

\* The user starts the upload: beginUpload.
startUpload ==
  /\ reading = 0
  /\ client.upload.fd # 0
  /\ client.upload.next_id = 1
  /\ client' = [client EXCEPT !.upload = beginUpload(@)]
  /\ UNCHANGED <<connection, config, connections_, sessions_, user_to_fd_, store, disk, last,
                 dlog, acked, rbuf, epoll_out, reading>>

\* The client finds its connection closed; what it had sent and the server
\* had not handled is lost.
connectionLost ==
  /\ reading = 0
  /\ client.upload.fd # 0
  /\ client.upload.fd \notin DOMAIN connections_
  /\ client' = [client EXCEPT !.upload.fd = 0, !.upload.outbox = <<>>,
                              !.upload.drops = @ + 1]
  /\ UNCHANGED <<connection, config, connections_, sessions_, user_to_fd_, store, disk, last,
                 dlog, acked, rbuf, epoll_out, reading>>

\* The server handles the oldest request of the client and the client
\* handles the answer, which is the first frame the request puts on the
\* client's connection.
uploadRoundTrip ==
  /\ client.upload.outbox # <<>>
  /\ client.upload.fd \in DOMAIN connections_
  /\ \E req \in {Head(client.upload.outbox)} : \E fd \in {client.upload.fd} :
       /\ handleFile(fd, req, "none")
       /\ client' = [client EXCEPT !.upload =
                       handleUploadPacket([@ EXCEPT !.outbox = Tail(@)],
                                          Appended(connections_[fd], connections_'[fd])[1])]

\* The client, which has no connection, sends its AuthLogin on a new one.
clientLogin(fd) ==
  /\ client.upload.fd = 0
  /\ \E req \in LoginRequests({"alice"}, {"p1"}) :
       req.json_ok /\ handleLogin(fd, req, "none", "none")

\* The connections that are closed in SpecUpload: the client's, MaxDrops
\* times, and those nobody has logged in on.
Closable(fd) ==
  IF fd = client.upload.fd THEN client.upload.drops < MaxDrops
  ELSE fd \in DOMAIN sessions_ /\ ~sessions_[fd].logged_in

InitUpload ==
  /\ config = Config(1, MaxFds, 1)
  /\ InitMemory
  /\ InitStore({"alice", "bob"}, <<>>)

NextUpload ==
  \/ \E fd \in Fds : client.upload.fd # fd /\ acceptConnections(fd)
  \/ \E fd \in Fds : Closable(fd) /\ disconnect(fd)
  \/ \E fd \in DOMAIN connections_ : flushWrite(fd, Len(connections_[fd]))
  \/ \E fd \in Fds : clientLogin(fd)
  \/ \E fd \in Fds : connectClient(fd)
  \/ startUpload
  \/ connectionLost
  \/ uploadRoundTrip

SpecUpload == InitUpload /\ [][NextUpload]_vars

(***************************************************************************)
(* SpecGroup: alice, bob and carol are registered and create, join, leave,  *)
(* rename and dissolve groups, kick each other and change each other's      *)
(* role.                                                                    *)
(***************************************************************************)
InitGroup ==
  /\ config = Config(1, MaxFds, 1)
  /\ InitMemory
  /\ InitStore({"alice", "bob", "carol"}, <<>>)

NextGroup ==
  \/ \E fd \in Fds : acceptConnections(fd)
  \/ \E fd \in Fds : disconnect(fd)
  \/ \E fd \in DOMAIN connections_ : flushWrite(fd, Len(connections_[fd]))
  \/ \E fd \in Fds : \E req \in LoginRequests({"alice", "bob", "carol"}, {"p1"}) :
       handleLogin(fd, req, "none", "none")
  \/ \E fd \in Fds :
       \E req \in GroupRequests({"team"}, {IdSeq[i] : i \in 1..MaxGroups},
                                {"alice", "bob", "carol"}) :
         (req.type = "GroupCreate" => id_seq < MaxGroups) /\ handleGroup(fd, req, 0)

SpecGroup == InitGroup /\ [][NextGroup]_vars

(***************************************************************************)
(* SpecChat: alice owns the group g0 and bob is a member of it; carol has   *)
(* never joined; a private message of bob waits for alice.  They join,      *)
(* leave, kick and dissolve, and send messages to the group, with the       *)
(* failures the store can report to dissolveGroup.                          *)
(***************************************************************************)
InitChat ==
  LET input == [conversation_type |-> "private", conversation_id |-> "alice",
                sender_id |-> "bob", sender_nickname |-> Nick("bob")]
      sent == storeMessage(EmptyMap, 0, EmptyMap, input, <<"alice">>, 0)
  IN /\ config = Config(1, MaxFds, 1)
     /\ InitMemory
     /\ users = RegisterAll(EmptyMap, UsersInOrder({"alice", "bob", "carol"}))
     /\ groups = createGroup(EmptyMap, EmptyMap, EmptyMap, EmptyMap, "alice", "team", "g0").groups
     /\ group_members = joinGroup(groups, [k \in {<<"g0", "alice">>} |-> "owner"], EmptyMap,
                                  EmptyMap, "bob", "g0").group_members
     /\ messages = sent.messages
     /\ msg_seq = sent.msg_seq
     /\ message_targets = sent.message_targets
     /\ files = EmptyMap
     /\ file_uploads = EmptyMap
     /\ file_targets = EmptyMap
     /\ id_seq = 0
     /\ disk = EmptyMap

ChatGroupRequests ==
  {req \in GroupRequests({"team"}, {"g0"}, {"bob"}) :
     /\ req.type # "GroupCreate"
     /\ req.type = "GroupAdmin" => req.action \in {"kick", "dissolve"}}

NextChat ==
  \/ \E fd \in Fds : acceptConnections(fd)
  \/ \E fd \in Fds : disconnect(fd)
  \/ \E fd \in DOMAIN connections_ : flushWrite(fd, Len(connections_[fd]))
  \/ \E fd \in Fds : \E req \in LoginRequests({"alice", "bob", "carol"}, {"p1"}) :
       handleLogin(fd, req, "none", "none")
  \/ \E fd \in Fds : \E req \in ChatGroupRequests :
       \E fail_at \in {0, 3} : handleGroup(fd, req, fail_at)
  \/ /\ msg_seq < MaxChatMsgs
     /\ \E fd \in Fds :
          \E req \in MessageRequests({"group"}, {"g0"}, {"hi"}) :
            handleMessage(fd, req, 0, FALSE)

SpecChat == InitChat /\ [][NextChat]_vars

(***************************************************************************)
(* The byte streams of the clients: frames a client writes, handed to the   *)
(* server by recv in pieces.                                                 *)
(***************************************************************************)
IsPrefix(p, q) == Len(p) <= Len(q) /\ SubSeq(q, 1, Len(p)) = p

LoginPacket == Packet(2, 0, 7, JsonLogin, <<>>)           \* AuthLogin of alice
BobLoginPacket == Packet(2, 0, 7, JsonLoginBob, <<>>)     \* AuthLogin of bob
ArrayLoginPacket == Packet(2, 0, 8, JsonArray, <<>>)      \* AuthLogin with metadata []
SendPacket == Packet(11, 1, 8, JsonEmptyObject, <<>>)     \* MessageSend with metadata {}
BrokenJoinPacket == Packet(8, 0, 7, JsonBroken, <<>>)     \* GroupJoin with metadata {
HistoryPacket == Packet(13, 0, 7, JsonEmptyObject, <<>>)  \* HistoryFetch
ChunkPacket == Packet(17, 0, 8, JsonEmptyObject, <<120>>) \* FileUploadChunk with one byte

Packets ==
  {LoginPacket, BobLoginPacket, ArrayLoginPacket, SendPacket, BrokenJoinPacket,
   HistoryPacket, ChunkPacket}

\* Headers peekHeader refuses: each differs from a good header in one field.
BadHeaders ==
  {PacketHeader(kMagic + 1, kVersion, 11, 0, 7, 0, 0),
   PacketHeader(kMagic, kVersion + 1, 11, 0, 7, 0, 0),
   PacketHeader(kMagic, kVersion, 11, 0, 7, kMaxMetaSize + 1, 0),
   PacketHeader(kMagic, kVersion, 11, 0, 7, 0, kMaxBinarySize + 1)}

\* What a client writes in one go: one frame, two frames, or a refused
\* header followed by a good frame.
Streams ==
  {<<encode(p)>> : p \in Packets}
    \cup {<<HeaderBytes(h)>> : h \in BadHeaders}
    \cup {<<encode(p), encode(q)>> : p \in {LoginPacket, SendPacket, HistoryPacket},
                                     q \in {SendPacket, BrokenJoinPacket}}
    \cup {<<HeaderBytes(h), encode(SendPacket)>> : h \in BadHeaders}

Flat(stream) == IF Len(stream) = 1 THEN stream[1] ELSE stream[1] \o stream[2]

\* Where recv may stop inside a stream: in a header, after a header, after
\* a frame.
Cuts(stream) ==
  LET first == Len(stream[1])
      inside(offset, size) == {offset + HeaderCut, offset + kHeaderSize, offset + size}
  IN IF Len(stream) = 1 THEN inside(0, first)
     ELSE inside(0, first) \cup inside(first, Len(stream[2]))

\* The bytes recv can return next on a connection whose read buffer holds
\* buffer.
Chunks(buffer) ==
  {SubSeq(Flat(stream), Len(buffer) + 1, n) :
     <<stream, n>> \in {x \in UNION {{<<st, c>> : c \in Cuts(st)} : st \in Streams} :
                          /\ IsPrefix(buffer, Flat(x[1]))
                          /\ x[2] > Len(buffer)}}

(***************************************************************************)
(* The reactor over byte streams: two registered users, connections that    *)
(* come and go, bytes that arrive in pieces.                                 *)
(***************************************************************************)
InitFrame ==
  /\ config = Config(1, MaxFds, 1)
  /\ InitMemory
  /\ InitStore({"alice", "bob"}, <<>>)

NextFrame ==
  \/ \E fd \in Fds : acceptConnections(fd)
  \/ \E fd \in Fds : reading = 0 /\ disconnect(fd)
  \/ \E fd \in DOMAIN connections_ : \E k \in {1, Len(connections_[fd])} : flushWrite(fd, k)
  \/ \E fd \in DOMAIN connections_ : \E chunk \in Chunks(rbuf[fd]) : handleRead(fd, chunk)
  \/ \E fd \in DOMAIN connections_ : processPackets(fd)

SpecFrame == InitFrame /\ [][NextFrame]_vars

\* The event of a writable socket in which send takes the whole queue.
Drain(fd) == fd \in DOMAIN connections_ /\ flushWrite(fd, Len(connections_[fd]))

\* A socket whose EPOLLOUT is armed again and again gets its event and takes
\* what is queued.
SpecFrameLive ==
  /\ SpecFrame
  /\ \A fd \in Fds : SF_vars(Drain(fd))

\* The scheduling of SpecUpload is fair: the reactor handles what has
\* arrived and writes what is queued, and the client gets on.
SpecUploadLive ==
  /\ SpecUpload
  /\ SF_vars(uploadRoundTrip)
  /\ WF_vars(connectionLost)
  /\ WF_vars(startUpload)
  /\ \A fd \in Fds : WF_vars(Drain(fd)) /\ WF_vars(connectClient(fd))
  /\ \A fd \in Fds : SF_vars(acceptConnections(fd))
  /\ \A fd \in Fds : SF_vars(clientLogin(fd))

(***************************************************************************)
(* Properties of the session registry.                                     *)
(***************************************************************************)

\* C1: user_to_fd holds user_id -> fd if and only if the session stored for fd
\* exists, is logged in and carries that user_id.
RegistryAgreement ==
  \A u \in Users : \A fd \in Fds :
    (u \in DOMAIN user_to_fd_ /\ user_to_fd_[u] = fd) <=> LoggedInAs(fd, u)

\* C2: no two sessions are logged in with the same user_id.
SingleSession ==
  \A f1 \in DOMAIN sessions_ : \A f2 \in DOMAIN sessions_ :
    (f1 # f2 /\ sessions_[f1].logged_in /\ sessions_[f2].logged_in)
      => sessions_[f1].user_id # sessions_[f2].user_id

\* C2 witness: two connections are logged in at once and a login of one of
\* their users on the other connection has just been refused.
SingleSessionWitness ==
  /\ last.op = "AuthLogin" /\ last.code = "LOGIN_FAILED"
  /\ last.message = "user already online"
  /\ \E f1 \in DOMAIN sessions_ : \E f2 \in DOMAIN sessions_ :
       /\ f1 # f2 /\ f2 = last.fd
       /\ sessions_[f1].logged_in /\ sessions_[f2].logged_in
       /\ sessions_[f1].user_id = last.req.user_id

\* C3: an AuthLogin with valid credentials for a user who is logged in on
\* another connection gets AuthError LOGIN_FAILED and changes neither the
\* registry nor any other write queue.
DoubleLoginRejected ==
  [][\A fd \in Fds :
       ( /\ last'.op = "AuthLogin" /\ last'.fd = fd /\ last'.req.json_ok
         /\ loginUser(users, last'.req.user_id, last'.req.password).ok
         /\ \E other \in Fds \ {fd} : LoggedInAs(other, last'.req.user_id) )
       => /\ connections_' = queueWrite(connections_, fd,
                               buildPacket("AuthError", last'.req.request_id,
                                 [code |-> "LOGIN_FAILED", message |-> "user already online"]))
          /\ sessions_' = sessions_
          /\ user_to_fd_' = user_to_fd_
          /\ store' = store]_vars

\* C3 witness: the refused login came with valid credentials while its user
\* is logged in on another connection, which is still logged in.
DoubleLoginWitness ==
  /\ last.op = "AuthLogin" /\ last.code = "LOGIN_FAILED"
  /\ loginUser(users, last.req.user_id, last.req.password).ok
  /\ \E other \in Fds \ {last.fd} : LoggedInAs(other, last.req.user_id)
  /\ Len(connections_[last.fd]) > 0
  /\ connections_[last.fd][Len(connections_[last.fd])].type = "AuthError"

(***************************************************************************)
(* Properties of the handlers behind the login test.                       *)
(***************************************************************************)
GatedTypes ==
  {"GroupCreate", "GroupJoin", "GroupLeave", "GroupAdmin", "MessageSend",
   "FileOffer", "FileUploadChunk", "FileUploadDone", "FileDownloadRequest"}

\* C4: a packet of a type behind the login test, on a connection whose session
\* is not logged in, is answered with an error envelope of the same type and
\* request id with code NOT_LOGGED_IN, and the step changes no table, no file
\* on disk and no other connection's write queue.
AuthenticationGate ==
  [][\A fd \in Fds :
       ( /\ last'.op \in GatedTypes /\ last'.fd = fd
         /\ fd \in DOMAIN sessions_ /\ ~sessions_[fd].logged_in )
       => /\ connections_' = queueWrite(connections_, fd,
                               buildPacket(last'.op, last'.req.request_id,
                                 ResponseMeta("error", "NOT_LOGGED_IN", "login required", NoExtra)))
          /\ store' = store
          /\ disk' = disk
          /\ sessions_' = sessions_ /\ user_to_fd_' = user_to_fd_]_vars

\* C4 witness: a FileUploadDone for an upload that is complete on disk was
\* refused on a connection that is not logged in while the uploader is logged
\* in on the other connection.
AuthenticationGateWitness ==
  /\ last.op = "FileUploadDone" /\ last.code = "NOT_LOGGED_IN"
  /\ last.fd \in DOMAIN sessions_ /\ ~sessions_[last.fd].logged_in
  /\ last.req.file_id \in DOMAIN file_uploads
  /\ file_uploads[last.req.file_id].uploaded_size = files[last.req.file_id].file_size
  /\ \E other \in Fds \ {last.fd} : LoggedInAs(other, files[last.req.file_id].uploader_id)

(***************************************************************************)
(* Properties of message storage and delivery.                             *)
(***************************************************************************)
TargetsOf(mt, message_id) == {k[2] : k \in {t \in DOMAIN mt : t[1] = message_id}}

\* The number of MessageDeliver frames of a message among the frames a step
\* appended to a connection's write queue.
DeliversAppended(old, new, fd, message_id) ==
  IF fd \notin DOMAIN new THEN 0
  ELSE LET app == Appended(IF fd \in DOMAIN old THEN old[fd] ELSE <<>>, new[fd])
       IN Cardinality({i \in DOMAIN app : app[i].type = "MessageDeliver"
                                            /\ app[i].request_id = 0
                                            /\ app[i].meta.message_id = message_id})

RECURSIVE Sum(_, _)
Sum(f, S) == IF S = {} THEN 0
             ELSE LET x == CHOOSE x \in S : TRUE IN f[x] + Sum(f, S \ {x})

\* C5: every message row has target rows, and a MessageSend that reaches the
\* store either adds one message row together with exactly one target row per
\* recipient (a row of a recipient without a connection has delivered_at
\* null), or, when an insert fails, leaves both tables as they were.
MessageTargetAtomicity ==
  /\ [](\A m \in DOMAIN messages : TargetsOf(message_targets, m) # {})
  /\ [](\A k \in DOMAIN message_targets : k[1] \in DOMAIN messages)
  /\ [][last'.op = "MessageSend" =>
         IF last'.code = "ok"
           THEN LET m == last'.info.message_id
                    rcp == Range(last'.info.recipients)
                IN /\ DOMAIN messages' = DOMAIN messages \cup {m}
                   /\ m \notin DOMAIN messages
                   /\ rcp # {}
                   /\ TargetsOf(message_targets', m) = rcp
                   /\ DOMAIN message_targets' = DOMAIN message_targets \cup {<<m, r>> : r \in rcp}
                   /\ \A r \in rcp : tryGetFd(user_to_fd_, r) = 0 => ~message_targets'[<<m, r>>]
           ELSE /\ messages' = messages
                /\ message_targets' = message_targets
                /\ msg_seq' = msg_seq]_vars

\* C5 witness: a group message with two recipients was stored.
MessageTargetAtomicityWitness ==
  /\ last.op = "MessageSend" /\ last.code = "ok"
  /\ Len(last.info.recipients) = 2
  /\ TargetsOf(message_targets, last.info.message_id) = Range(last.info.recipients)

\* C6: after a MessageSend is stored, every recipient who is logged in has
\* exactly one MessageDeliver of the message with request id 0 appended to its
\* connection and its target row marked; a recipient who is not logged in has
\* its target row unmarked, and no frame is appended for it anywhere (the
\* frames of the message appended in the step are as many as the recipients
\* who are logged in).
OnlineFanout ==
  [][(last'.op = "MessageSend" /\ last'.code = "ok") =>
       LET m == last'.info.message_id
           rcp == Range(last'.info.recipients)
           online == {r \in rcp : \E f \in Fds : LoggedInAs(f, r)}
           fdOf(r) == CHOOSE f \in Fds : LoggedInAs(f, r)
           appended == [f \in Fds |-> DeliversAppended(connections_, connections_', f, m)]
       IN /\ \A r \in online : message_targets'[<<m, r>>]
          /\ \A r \in online : appended[fdOf(r)] = 1
          /\ \A r \in rcp \ online : ~message_targets'[<<m, r>>]
          /\ Sum(appended, Fds) = Cardinality(online)]_vars

\* C7: a disconnect loses no message: a MessageDeliver still pending on the
\* connection of a logged-in user when it is dropped belongs to a target row
\* of that user whose delivered_at is null, so that the next login sends it
\* again.
DisconnectKeepsSpool ==
  [][\A fd \in Fds :
       (last'.op = "disconnect" /\ last'.fd = fd /\ isLoggedIn(sessions_, fd)) =>
         \A m \in Range(DeliverIds(connections_[fd])) :
           <<m, sessions_[fd].user_id>> \in DOMAIN message_targets'
             => ~message_targets'[<<m, sessions_[fd].user_id>>]]_vars

StrictlyIncreasing(seq) == \A i \in 1..(Len(seq) - 1) : seq[i] < seq[i + 1]

\* C8: the MessageDeliver frames enqueued on a connection since its session
\* logged in carry strictly increasing message ids.
DeliveryOrder ==
  \A fd \in DOMAIN sessions_ : sessions_[fd].logged_in => StrictlyIncreasing(dlog[fd])

\* C9: a successful login of a user with an undelivered message appends to
\* its connection AuthOk and, right after it, the MessageDeliver of the lowest
\* undelivered message id.
LoginOrdering ==
  [][\A fd \in Fds :
       ( /\ last'.op = "AuthLogin" /\ last'.code = "ok" /\ last'.fd = fd
         /\ fetchUndelivered(messages, message_targets, last'.req.user_id, 1) # <<>> )
       => LET app == Appended(connections_[fd], connections_'[fd])
              lowest == fetchUndelivered(messages, message_targets, last'.req.user_id, 1)[1]
          IN /\ Len(app) >= 2
             /\ app[1].type = "AuthOk"
             /\ app[2].type = "MessageDeliver"
             /\ app[2].meta.message_id = lowest]_vars

(***************************************************************************)
(* Properties of the login drains.                                         *)
(***************************************************************************)
\* The file ids of the server-initiated FileDone frames of a sequence of
\* frames.
RECURSIVE NoticeIds(_)
NoticeIds(frames) ==
  IF frames = <<>> THEN <<>>
  ELSE (IF Head(frames).type = "FileDone" /\ Head(frames).request_id = 0
          THEN <<Head(frames).meta.file_id>> ELSE <<>>) \o NoticeIds(Tail(frames))

\* C10: the drains of a successful login leave their loops through a return;
\* when no store call failed, the user is left with no message target with
\* delivered_at null and no such file target of a finalized file, and the
\* frames appended to the connection carry every item of the two spools
\* exactly once.
SpoolDrain ==
  [][\A fd \in Fds :
       (last'.op = "AuthLogin" /\ last'.code = "ok" /\ last'.fd = fd) =>
         LET u == last'.req.user_id
             all_m == fetchUndelivered(messages, message_targets, u,
                                       Cardinality(DOMAIN message_targets))
             all_f == fileFetchUndelivered(files, file_uploads, file_targets, u,
                                           Cardinality(DOMAIN file_targets))
             app == Appended(connections_[fd], connections_'[fd])
         IN /\ ~last'.info.exhausted
            /\ ~last'.info.store_error =>
                 /\ \A k \in DOMAIN message_targets' : k[2] = u => message_targets'[k]
                 /\ \A k \in DOMAIN file_targets' :
                      (k[2] = u /\ k[1] \notin DOMAIN file_uploads') => file_targets'[k]
                 /\ DeliverIds(app) = all_m
                 /\ NoticeIds(app) = all_f]_vars

\* C10 witness: with history_page_size 1, a login without a store error has
\* drained two messages and a file notice.
SpoolDrainWitness ==
  /\ last.op = "AuthLogin" /\ last.code = "ok" /\ ~last.info.store_error
  /\ config.history_page_size = 1
  /\ Len(dlog[last.fd]) = 2
  /\ last.info.turns >= 3
  /\ \E i \in DOMAIN connections_[last.fd] :
       connections_[last.fd][i].type = "FileDone" /\ connections_[last.fd][i].request_id = 0

(***************************************************************************)
(* Properties of the two-phase upload.                                     *)
(***************************************************************************)
\* C11: for every row F of files exactly one holds: (a) F has a file_uploads
\* row, its temp file exists and its storage file does not; (b) F has no
\* file_uploads row and its storage file exists.
TwoPhaseExclusivity ==
  \A f \in DOMAIN files :
    LET a == /\ f \in DOMAIN file_uploads
             /\ temp_path(f) \in DOMAIN disk
             /\ storage_path(f) \notin DOMAIN disk
        b == /\ f \notin DOMAIN file_uploads
             /\ storage_path(f) \in DOMAIN disk
    IN (a \/ b) /\ ~(a /\ b)

\* C12: uploaded_size stays within 0..file_size, and the uploaded_size the
\* successful appendChunk calls on a file return never decreases, whatever
\* resumeUpload calls come between them.
UploadedSizeMonotone ==
  /\ [](\A f \in DOMAIN file_uploads :
          /\ 0 <= file_uploads[f].uploaded_size
          /\ f \in DOMAIN files => file_uploads[f].uploaded_size <= files[f].file_size)
  /\ [][\A f \in DOMAIN acked : f \in DOMAIN acked' /\ acked'[f].size >= acked[f].size]_vars

\* C13: readChunk returns data only for a user with a file_targets row of the
\* file and only when the file has no file_uploads row; a FileDownloadRequest
\* of a logged-in user who is not a target, or for a file that is still
\* uploading, is answered with one DOWNLOAD_FAILED frame without binary and
\* changes nothing else.
DownloadGating ==
  /\ [](\A f \in Ids : \A u \in Users : \A offset \in 0..MaxFileSize :
          readChunk(config, files, file_uploads, file_targets, disk, f, u, offset).ok
            => <<f, u>> \in DOMAIN file_targets /\ f \notin DOMAIN file_uploads)
  /\ [][\A fd \in Fds :
          ( /\ last'.op = "FileDownloadRequest" /\ last'.fd = fd /\ last'.req.json_ok
            /\ ~notLoggedIn(sessions_, fd)
            /\ \/ <<last'.req.file_id, sessions_[fd].user_id>> \notin DOMAIN file_targets
               \/ last'.req.file_id \in DOMAIN file_uploads )
          => LET app == Appended(connections_[fd], connections_'[fd])
             IN /\ Len(app) = 1
                /\ app[1].type = "FileDownloadRequest"
                /\ app[1].request_id = last'.req.request_id
                /\ app[1].meta.status = "error"
                /\ app[1].meta.code = "DOWNLOAD_FAILED"
                /\ "binary" \notin DOMAIN app[1]
                /\ \A other \in DOMAIN connections_ \ {fd} :
                     connections_'[other] = connections_[other]
                /\ store' = store /\ disk' = disk]_vars

\* C13 witness: carol, who is not a target, asked for a stored file and was
\* refused.
DownloadGatingWitness ==
  /\ last.op = "FileDownloadRequest" /\ last.code = "DOWNLOAD_FAILED"
  /\ last.message = "no permission to download"
  /\ LoggedInAs(last.fd, "carol")
  /\ last.req.file_id \in DOMAIN files \ DOMAIN file_uploads
  /\ storage_path(last.req.file_id) \in DOMAIN disk
  /\ \E k \in DOMAIN file_targets : k[1] = last.req.file_id

\* A user can download the first chunk of a file.
Downloadable(tbl, uploads, ft, dsk, f, u) ==
  readChunk(config, tbl, uploads, ft, dsk, f, u, 0).ok

\* C14: the file_uploads row of a file is deleted, its storage file appears,
\* or the file becomes downloadable for a user, only in a FileUploadDone step
\* for that file sent by its uploader, taken when uploaded_size = file_size
\* and the digest of the temp file is the sha256 of the offer.
FinalizationPreconditions ==
  [][\A f \in Ids :
       ( \/ f \in DOMAIN file_uploads /\ f \notin DOMAIN file_uploads'
         \/ storage_path(f) \notin DOMAIN disk /\ storage_path(f) \in DOMAIN disk'
         \/ \E u \in Users :
              /\ ~Downloadable(files, file_uploads, file_targets, disk, f, u)
              /\ Downloadable(files', file_uploads', file_targets', disk', f, u) )
       => /\ last'.op = "FileUploadDone"
          /\ last'.req.file_id = f
          /\ f \in DOMAIN files /\ f \in DOMAIN file_uploads
          /\ LoggedInAs(last'.fd, files[f].uploader_id)
          /\ file_uploads[f].uploaded_size = files[f].file_size
          /\ temp_path(f) \in DOMAIN disk
          /\ sha256Hex(disk[temp_path(f)]) = files[f].sha256]_vars

\* C14 witness: alice's FileUploadDone succeeded; the row is gone and the
\* storage file holds the offered content, which bob can download.
FinalizationWitness ==
  /\ last.op = "FileUploadDone" /\ last.code = "ok"
  /\ LoggedInAs(last.fd, "alice")
  /\ last.req.file_id \in DOMAIN files \ DOMAIN file_uploads
  /\ storage_path(last.req.file_id) \in DOMAIN disk
  /\ disk[storage_path(last.req.file_id)] = FileContent
  /\ Downloadable(files, file_uploads, file_targets, disk, last.req.file_id, "bob")

\* The temp file of a file, as the sequence of its content when it exists.
TempOf(dsk, f) == IF temp_path(f) \in DOMAIN dsk THEN <<dsk[temp_path(f)]>> ELSE <<>>

\* C15: for a file with a file_uploads row, resumeUpload, appendChunk and
\* finalizeUpload called with a user_id other than the uploader_id fail and
\* return the row and the files as they were; a step changes the row or the
\* temp file only when it is a file request for that file_id on a connection
\* logged in as the uploader, and the requests of the other users fail.
SingleWriter ==
  /\ [](\A f \in DOMAIN file_uploads \cap DOMAIN files :
          \A u \in (Users \cup {NoUser}) \ {files[f].uploader_id} :
            LET rs == resumeUpload(files, file_uploads, file_targets, disk, f, u)
                unchanged(r) == /\ ~r.ok
                                /\ r.file_uploads = file_uploads
                                /\ r.disk = disk
            IN /\ unchanged(rs)
               /\ \A db_fail \in {"none", "update", "rename", "delete"} :
                    /\ unchanged(finalizeUpload(files, file_uploads, file_targets, disk, f, u,
                                                db_fail))
                    /\ \A offset \in 0..MaxFileSize : \A b \in Bytes :
                         unchanged(appendChunk(files, file_uploads, file_targets, disk, f, u,
                                               offset, <<b>>, db_fail)))
  /\ [][\A f \in DOMAIN file_uploads \cap DOMAIN files :
          LET changed == \/ f \notin DOMAIN file_uploads'
                         \/ file_uploads'[f] # file_uploads[f]
                         \/ TempOf(disk', f) # TempOf(disk, f)
              by_other == /\ last'.op \in {"FileOffer", "FileUploadChunk", "FileUploadDone"}
                          /\ last'.req.file_id = f
                          /\ last'.req.json_ok
                          /\ ~notLoggedIn(sessions_, last'.fd)
                          /\ sessions_[last'.fd].user_id # files[f].uploader_id
          IN /\ changed =>
                  /\ last'.op \in {"FileOffer", "FileUploadChunk", "FileUploadDone"}
                  /\ last'.req.file_id = f
                  /\ LoggedInAs(last'.fd, files[f].uploader_id)
             /\ by_other =>
                  /\ last'.code \in {"RESUME_FAILED", "UPLOAD_FAILED", "FINALIZE_FAILED"}
                  /\ last'.message = "uploader mismatch"
                  /\ ~changed]_vars

\* C15 witness: bob sent a chunk at the right offset for alice's upload in
\* flight and was refused.
SingleWriterWitness ==
  /\ last.op = "FileUploadChunk" /\ last.code = "UPLOAD_FAILED"
  /\ last.message = "uploader mismatch"
  /\ LoggedInAs(last.fd, "bob")
  /\ last.req.file_id \in DOMAIN file_uploads
  /\ files[last.req.file_id].uploader_id = "alice"
  /\ file_uploads[last.req.file_id].uploaded_size = 1
  /\ last.req.offset = 1
  /\ TempOf(disk, last.req.file_id) = << <<"x">> >>

\* C16: a disconnect changes no row of the store and no file; when the
\* uploader's first request for a file after a connection of the uploader
\* was closed during the upload is a FileOffer that carries the file_id, it
\* is answered with a FileAccept of that file_id whose next_offset is the
\* uploaded_size acknowledged last before the connection was closed.
UploadSurvivesDrop ==
  [][/\ last'.op = "disconnect" => store' = store /\ disk' = disk
     /\ \A fd \in Fds : \A f \in DOMAIN file_uploads \cap DOMAIN files :
          ( /\ last'.op = "FileOffer" /\ last'.fd = fd /\ last'.req.json_ok
            /\ last'.req.file_id = f
            /\ LoggedInAs(fd, files[f].uploader_id)
            /\ f \in DOMAIN acked /\ acked[f].dropped )
          => LET app == Appended(connections_[fd], connections_'[fd])
             IN /\ Len(app) = 1
                /\ app[1].type = "FileAccept"
                /\ app[1].request_id = last'.req.request_id
                /\ app[1].meta.status = "ok"
                /\ app[1].meta.extra.file_id = f
                /\ app[1].meta.extra.next_offset = acked[f].size]_vars

\* C17: a successful resumeUpload returns and persists the smaller of the
\* recorded uploaded_size and the size of the temp file.
ResumeReconciliation ==
  [][\A fd \in Fds : \A f \in DOMAIN file_uploads \cap DOMAIN files :
       ( /\ last'.op = "FileOffer" /\ last'.fd = fd /\ last'.code = "ok"
         /\ last'.req.file_id = f )
       => LET recorded == file_uploads[f].uploaded_size
              actual == IF temp_path(f) \in DOMAIN disk THEN Len(disk[temp_path(f)]) ELSE 0
              app == Appended(connections_[fd], connections_'[fd])
          IN /\ f \in DOMAIN file_uploads'
             /\ file_uploads'[f].uploaded_size = Min({recorded, actual})
             /\ Len(app) = 1
             /\ app[1].meta.extra.next_offset = Min({recorded, actual})]_vars

\* C18: a successful FileUploadDone puts on the uploader's connection one
\* FileDone with the request's request_id; every other target of the file
\* that is logged in gets exactly one FileDone with request_id 0 on its
\* connection and its file_targets row marked delivered; a target that is
\* not logged in gets no frame and its row keeps delivered_at null.
CompletionFanout ==
  [][\A fd \in Fds :
       (last'.op = "FileUploadDone" /\ last'.code = "ok" /\ last'.fd = fd) =>
         LET f == last'.req.file_id
             uploader == sessions_[fd].user_id
             others == {k[2] : k \in {t \in DOMAIN file_targets : t[1] = f}} \ {uploader}
             online(t) == \E c \in DOMAIN sessions_ : LoggedInAs(c, t)
             app(c) == Appended(connections_[c], connections_'[c])
         IN /\ Len(app(fd)) >= 1
            /\ app(fd)[1].type = "FileDone"
            /\ app(fd)[1].request_id = last'.req.request_id
            /\ app(fd)[1].meta.status = "ok"
            /\ \A c \in DOMAIN connections_ :
                 NoticeIds(app(c)) =
                   IF \E t \in others : LoggedInAs(c, t) THEN <<f>> ELSE <<>>
            /\ \A t \in others :
                 file_targets'[<<f, t>>] = (online(t) \/ file_targets[<<f, t>>])]_vars

\* The file ids of the FileDone frames of a sequence of frames, answers to
\* the uploader and notices alike.
FileDoneIds(frames) ==
  {IF frames[i].request_id = 0 THEN frames[i].meta.file_id ELSE frames[i].meta.extra.file_id :
     i \in {j \in DOMAIN frames : frames[j].type = "FileDone"}}

\* C19: a step enqueues a FileDone for a file only when the file has no
\* file_uploads row once the step is over (the FileUploadDone step deletes
\* the row before it enqueues), and the file_targets rows of a file that has
\* a file_uploads row all have delivered_at null; so a target who logs in
\* during the upload gets no notice and keeps its row for a later one.
NoNoticeWhileUploading ==
  /\ [](\A k \in DOMAIN file_targets : k[1] \in DOMAIN file_uploads => ~file_targets[k])
  /\ [][\A c \in DOMAIN connections_ \cap DOMAIN connections_' :
          \A f \in FileDoneIds(Appended(connections_[c], connections_'[c])) :
            f \notin DOMAIN file_uploads']_vars

\* C19 witness: bob, a target of a file whose upload is in flight, has logged
\* in; his connection holds no FileDone and his row has delivered_at null.
NoNoticeWitness ==
  /\ last.op = "AuthLogin" /\ last.code = "ok"
  /\ LoggedInAs(last.fd, "bob")
  /\ \E f \in DOMAIN file_uploads :
       /\ file_uploads[f].uploaded_size > 0
       /\ <<f, "bob">> \in DOMAIN file_targets
       /\ ~file_targets[<<f, "bob">>]
  /\ Len(connections_[last.fd]) > 0
  /\ FileDoneIds(connections_[last.fd]) = {}

(***************************************************************************)
(* Properties of the groups.                                               *)
(***************************************************************************)
\* The users with a group_members row of a role in a group.
MembersWithRole(group_id, role) ==
  {k[2] : k \in {x \in DOMAIN group_members :
                   x[1] = group_id /\ group_members[x] = role}}

\* C20: every group has exactly one group_members row with role owner, and
\* it is the row of the group's owner_id.
GroupOwnerInvariant ==
  \A group_id \in DOMAIN groups :
    MembersWithRole(group_id, "owner") = {groups[group_id].owner_id}

\* C20 witness: a group with an owner, an admin and a member, after the
\* owner's request to leave was refused.
GroupOwnerWitness ==
  /\ last.op = "GroupLeave" /\ last.code = "LEAVE_FAILED"
  /\ last.message = "owner cannot leave group"
  /\ last.req.group_id \in DOMAIN groups
  /\ LoggedInAs(last.fd, groups[last.req.group_id].owner_id)
  /\ MembersWithRole(last.req.group_id, "admin") # {}
  /\ MembersWithRole(last.req.group_id, "member") # {}

\* C21: a kick request removes the target's group_members row, and only that
\* row, when the actor's role is owner or admin, the target has a row whose role
\* is not owner, and the target's role is admin only if the actor is the owner;
\* in every other case it is answered with an error and group_members is
\* unchanged.
KickPermission ==
  [][(last'.op = "GroupAdmin" /\ last'.req.action = "kick"
        /\ LoggedInAs(last'.fd, sessions_[last'.fd].user_id)) =>
       LET actor == sessions_[last'.fd].user_id
           g == last'.req.group_id
           target == last'.req.target_user_id
           actor_role == getUserRole(group_members, actor, g)
           target_role == getUserRole(group_members, target, g)
           allowed == /\ actor_role \in {"owner", "admin"}
                      /\ target_role \in {"admin", "member"}
                      /\ target_role = "admin" => actor_role = "owner"
       IN IF allowed
            THEN /\ last'.code = "ok"
                 /\ group_members' = Erase(group_members, <<g, target>>)
            ELSE /\ last'.code = "KICK_FAILED"
                 /\ group_members' = group_members]_vars

\* C21 witness: an admin's request to kick another admin was refused, and both
\* still have their rows.
KickPermissionWitness ==
  /\ last.op = "GroupAdmin" /\ last.req.action = "kick" /\ last.code = "KICK_FAILED"
  /\ last.message = "admin cannot kick another admin"
  /\ last.fd \in DOMAIN sessions_ /\ sessions_[last.fd].logged_in
  /\ getUserRole(group_members, sessions_[last.fd].user_id, last.req.group_id) = "admin"
  /\ getUserRole(group_members, last.req.target_user_id, last.req.group_id) = "admin"
  /\ last.req.target_user_id # sessions_[last.fd].user_id

\* The messages of a group conversation.
GroupMessages(msgs, group_id) ==
  {m \in DOMAIN msgs : msgs[m].conversation_type = "group"
                         /\ msgs[m].conversation_id = group_id}

\* C22: a dissolve request that succeeds comes from the group's owner and
\* leaves no row of the group: the group row, its member rows, its messages
\* and the targets of those messages are gone in that one step, and every
\* other row is as it was; a dissolve request that fails, from a user who is
\* not the owner or on a store error, leaves the four tables unchanged.
DissolveCascade ==
  [][(last'.op = "GroupAdmin" /\ last'.req.action = "dissolve"
        /\ last'.fd \in DOMAIN sessions_ /\ sessions_[last'.fd].logged_in) =>
       LET actor == sessions_[last'.fd].user_id
           g == last'.req.group_id
           gone == GroupMessages(messages, g)
       IN /\ getUserRole(group_members, actor, g) # "owner" => last'.code = "DISSOLVE_FAILED"
          /\ IF last'.code = "ok"
               THEN /\ getUserRole(group_members, actor, g) = "owner"
                    /\ groups' = [x \in DOMAIN groups \ {g} |-> groups[x]]
                    /\ group_members' =
                         [k \in {x \in DOMAIN group_members : x[1] # g} |-> group_members[k]]
                    /\ messages' = [m \in DOMAIN messages \ gone |-> messages[m]]
                    /\ message_targets' =
                         [k \in {x \in DOMAIN message_targets : x[1] \notin gone} |->
                            message_targets[k]]
               ELSE /\ groups' = groups
                    /\ group_members' = group_members
                    /\ messages' = messages
                    /\ message_targets' = message_targets]_vars

\* C22 witness: the owner dissolved a group that had a message with a target
\* row; the private message stored before is still there with its target.
DissolveCascadeWitness ==
  /\ last.op = "GroupAdmin" /\ last.req.action = "dissolve" /\ last.code = "ok"
  /\ msg_seq = 2
  /\ DOMAIN messages = {1}
  /\ DOMAIN message_targets = {<<1, "alice">>}
  /\ groups = EmptyMap /\ group_members = EmptyMap

\* C23: a MessageSend to a group from a logged-in user who has no
\* group_members row in it is answered with code NOT_IN_GROUP on the sender's
\* connection, stores no message and no target row, and changes no other
\* connection's write queue.
MembersOnlySend ==
  [][(last'.op = "MessageSend" /\ last'.req.conversation_type = "group"
        /\ last'.fd \in DOMAIN sessions_ /\ sessions_[last'.fd].logged_in
        /\ getUserRole(group_members, sessions_[last'.fd].user_id,
                        last'.req.conversation_id) = "") =>
       /\ last'.code = "NOT_IN_GROUP"
       /\ messages' = messages /\ msg_seq' = msg_seq /\ message_targets' = message_targets
       /\ connections_' = sendResponse(connections_, last'.fd, "MessageSend",
                                        last'.req.request_id, "error", "NOT_IN_GROUP",
                                        "user not in group", NoExtra)]_vars

\* C23 witness: bob, who was a member, has left the group or was kicked; the
\* group still has its owner, who is logged in on the other connection, and
\* bob's message to the group was refused.
MembersOnlySendWitness ==
  /\ last.op = "MessageSend" /\ last.code = "NOT_IN_GROUP"
  /\ LoggedInAs(last.fd, "bob")
  /\ last.req.conversation_id \in DOMAIN groups
  /\ \E other \in Fds \ {last.fd} : LoggedInAs(other, groups[last.req.conversation_id].owner_id)
  /\ DeliverIds(connections_[last.fd]) = <<>>

(***************************************************************************)
(* Properties of the framing layer.                                         *)
(***************************************************************************)
\* The head of the buffer is a whole header with a wrong magic, a wrong
\* version or a length above its cap.
BadHead(buffer) ==
  /\ Len(buffer) >= kHeaderSize
  /\ LET h == ReadHeader(buffer)
     IN \/ h.magic # kMagic
        \/ h.version # kVersion
        \/ h.meta_len > kMaxMetaSize
        \/ h.bin_len > kMaxBinarySize

\* C24: when the read buffer of the connection being read starts with a
\* 28-byte header that has a wrong magic, a wrong version, meta_len above
\* 1 MiB or bin_len above 32 MiB, the next step closes the connection: its
\* write queue, its read buffer, its session and the user_to_fd entry of the
\* user of that session are gone, no handler ran on the store, and this
\* holds whether or not any payload byte arrived.
FramingErrorsFatal ==
  [][\A fd \in DOMAIN connections_ :
       (reading = fd /\ BadHead(rbuf[fd])) =>
         /\ fd \notin DOMAIN connections_'
         /\ fd \notin DOMAIN rbuf'
         /\ fd \notin DOMAIN sessions_'
         /\ sessions_[fd].logged_in => sessions_[fd].user_id \notin DOMAIN user_to_fd_'
         /\ reading' = 0
         /\ last'.op = "disconnect"
         /\ UNCHANGED <<store, disk>>]_vars

\* A connection was closed for a header that announces more binary bytes
\* than the cap, while another connection stays logged in.
FramingErrorsFatalWitness ==
  /\ last.op = "disconnect"
  /\ last.message = "payload too large"
  /\ last.fd \notin DOMAIN connections_
  /\ \E fd \in DOMAIN sessions_ : sessions_[fd].logged_in

\* C25: when the read buffer of a connection holds exactly encode(packet),
\* decode succeeds, consumes 28 + meta length + binary length bytes (the whole
\* buffer), and yields the type, flags, request_id, metadata bytes and binary
\* bytes of the packet; the length fields of the decoded header are the sizes
\* of the payloads.  The step of processPackets on such a buffer leaves the
\* read buffer empty.
CodecRoundTrip ==
  [][\A fd \in DOMAIN rbuf : \A packet \in Packets :
       rbuf[fd] = encode(packet) =>
         LET dec == decode(rbuf[fd])
             size == kHeaderSize + Len(packet.meta_json) + Len(packet.binary)
         IN /\ dec.ok
            /\ Len(rbuf[fd]) = size
            /\ dec.buffer = consume(rbuf[fd], size)
            /\ dec.buffer = <<>>
            /\ dec.packet.header.magic = packet.header.magic
            /\ dec.packet.header.version = packet.header.version
            /\ dec.packet.header.type = packet.header.type
            /\ dec.packet.header.flags = packet.header.flags
            /\ dec.packet.header.request_id = packet.header.request_id
            /\ dec.packet.header.meta_len = Len(packet.meta_json)
            /\ dec.packet.header.bin_len = Len(packet.binary)
            /\ dec.packet.meta_json = packet.meta_json
            /\ dec.packet.binary = packet.binary
            /\ (reading = fd /\ fd \in DOMAIN rbuf') => rbuf'[fd] = <<>>]_vars

\* A chunk upload frame with metadata and one binary byte was decoded from a
\* buffer that held exactly its encoding, and dispatched.
CodecRoundTripWitness ==
  /\ last.op = "FileUploadChunk"
  /\ last.req.request_id = ChunkPacket.header.request_id
  /\ last.req.binary = ChunkPacket.binary
  /\ last.fd \in DOMAIN rbuf
  /\ rbuf[last.fd] = <<>>

\* C26: in a turn of the decode loop, a read buffer that is a proper prefix
\* of a valid frame gives need-more: the buffer, the write queues, the
\* sessions and the store are unchanged, the connection is kept and the
\* reactor goes back to its wait; a read buffer that starts with a whole valid
\* frame gives that frame to the dispatch, and the bytes after the frame are
\* what the buffer holds afterwards.
PartialFramesWait ==
  [][\A fd \in DOMAIN connections_ : \A packet \in Packets :
       LET frame == encode(packet)
       IN reading = fd =>
            /\ (IsPrefix(rbuf[fd], frame) /\ rbuf[fd] # frame) =>
                 /\ last'.op = "wait"
                 /\ reading' = 0
                 /\ UNCHANGED <<rbuf, connections_, sessions_, user_to_fd_, store, disk>>
            /\ IsPrefix(frame, rbuf[fd]) =>
                 /\ last'.op \notin {"wait", "disconnect"}
                 /\ last'.req.type = PacketTypeName(packet.header.type)
                 /\ last'.req.request_id = packet.header.request_id
                 /\ fd \in DOMAIN rbuf' =>
                      rbuf'[fd] = SubSeq(rbuf[fd], Len(frame) + 1, Len(rbuf[fd]))]_vars

\* After a first frame was answered, the reactor waits with the header of
\* the next frame in the buffer and its payload still to come.
PartialFramesWaitWitness ==
  /\ last.op = "wait"
  /\ last.fd \in DOMAIN connections_
  /\ connections_[last.fd] # <<>>
  /\ Len(rbuf[last.fd]) = kHeaderSize
  /\ IsPrefix(rbuf[last.fd], encode(SendPacket))

\* The frames of queue new that were not in old and carry request_id.
Answers(old, new, request_id) ==
  {i \in Len(old) + 1..Len(new) : new[i].request_id = request_id}

\* C27: the decode loop dispatches the frame at the head of the read buffer,
\* and for a frame of a dispatched type (auth, group, message, file) the turn
\* that dispatches it puts exactly one packet with the request_id of the frame
\* on the write queue of the connection the frame came from, before the rest
\* of the buffer is decoded.
ResponseBeforeNextFrame ==
  [][\A fd \in DOMAIN connections_ :
       LET dec == tryDecodePacket(rbuf[fd])
           request_id == dec.packet.header.request_id
       IN (reading = fd /\ dec.ok
             /\ PacketTypeName(dec.packet.header.type) \in DispatchedTypes) =>
            /\ fd \in DOMAIN connections_'
            /\ IsPrefix(connections_[fd], connections_'[fd])
            /\ Cardinality(Answers(connections_[fd], connections_'[fd], request_id)) = 1
            /\ rbuf'[fd] = dec.buffer
            /\ last'.req.request_id = request_id]_vars

\* C28: every packet the decode loop takes off a read buffer, whatever its
\* type tag, is answered in that turn by a packet with its request_id on the
\* write queue of the connection it came from, and the connection stays.
EveryPacketAnswered ==
  [][\A fd \in DOMAIN connections_ :
       LET dec == tryDecodePacket(rbuf[fd])
       IN (reading = fd /\ dec.ok) =>
            /\ fd \in DOMAIN connections_'
            /\ Answers(connections_[fd], connections_'[fd],
                       dec.packet.header.request_id) # {}]_vars

\* C29: a packet of a handled type whose metadata is no JSON text is
\* answered with the code INVALID_JSON, on a session that is logged in and on
\* one that is not.
JsonParsingFirst ==
  [][\A fd \in DOMAIN connections_ :
       LET dec == tryDecodePacket(rbuf[fd])
       IN (reading = fd /\ dec.ok
             /\ PacketTypeName(dec.packet.header.type) \in DispatchedTypes
             /\ ~parseJson(dec.packet.meta_json).ok) =>
            /\ fd \in DOMAIN connections_'
            /\ Len(connections_'[fd]) = Len(connections_[fd]) + 1
            /\ connections_'[fd][Len(connections_'[fd])].meta.code = "INVALID_JSON"]_vars

\* C30: whenever the reactor is at its wait, EPOLLOUT is armed for a
\* connection exactly when its write queue holds unsent packets, whichever
\* handler put them there; and, in a run where the reactor thread always
\* comes back from the loop of processPackets, a queue that holds packets is
\* later empty, unless its connection is closed first.
WriteInterestTracksPending ==
  /\ [](reading = 0 =>
          \A fd \in DOMAIN connections_ : epoll_out[fd] <=> connections_[fd] # <<>>)
  /\ []<>(reading <= 0) =>
       \A fd \in Fds :
         (fd \in DOMAIN connections_ /\ connections_[fd] # <<>>)
           ~> (fd \notin DOMAIN connections_ \/ connections_[fd] = <<>>)

\* The login of one connection has put the roster on the queue of another
\* one, whose EPOLLOUT is armed when the reactor is back at its wait.
WriteInterestWitness ==
  /\ reading = 0
  /\ last.op = "wait"
  /\ last.fd \in DOMAIN sessions_
  /\ sessions_[last.fd].logged_in
  /\ \E fd \in DOMAIN connections_ \ {last.fd} :
       /\ epoll_out[fd]
       /\ connections_[fd] # <<>>
       /\ connections_[fd][Len(connections_[fd])].type = "UserListUpdate"

(***************************************************************************)
(* Properties of the connection table, the roster and the deliveries.       *)
(***************************************************************************)
\* C31: the number of connections never exceeds max_clients, and a
\* connection that arrives while max_clients connections exist is closed:
\* no write buffer, read buffer, epoll entry or session is made for it.
ConnectionCap ==
  [][/\ Cardinality(DOMAIN connections_') <= config.max_clients
     /\ \A fd \in Fds :
          (last'.op = "accept" /\ last'.fd = fd /\ last' # last
             /\ Cardinality(DOMAIN connections_) >= config.max_clients) =>
            /\ last'.code = "closed"
            /\ fd \notin DOMAIN connections_'
            /\ fd \notin DOMAIN sessions_'
            /\ UNCHANGED <<connections_, sessions_, user_to_fd_, rbuf, epoll_out>>]_vars

\* A connection was closed on arrival while max_clients connections, fewer
\* than the descriptors there are, were open.
ConnectionCapWitness ==
  /\ last.op = "accept"
  /\ last.code = "closed"
  /\ Cardinality(DOMAIN connections_) = config.max_clients
  /\ last.fd \notin DOMAIN connections_
  /\ last.fd \notin DOMAIN sessions_

\* The requests a download of size bytes from offset start takes.
Requests(size, start, chunk) == (size - start + chunk - 1) \div chunk

\* C32: for a Stored file of size S and a user in its target set, a request at
\* an offset within the file is answered with the bytes at that offset, at
\* least one and at most file_chunk_size of them, with done set exactly when
\* offset + len(data) >= S, and a request at an offset below 0 or at or
\* above S is refused with DOWNLOAD_FAILED; a client that asks for offset 0
\* and then for offset + len(data) has received the file, byte for byte, when
\* it sees done, after ceil(S / file_chunk_size) requests.
ChunkedDownload ==
  /\ [][\A fd \in Fds :
          ( /\ last'.op = "FileDownloadRequest" /\ last'.fd = fd /\ last' # last
            /\ last'.req.json_ok
            /\ ~notLoggedIn(sessions_, fd)
            /\ <<last'.req.file_id, sessions_[fd].user_id>> \in DOMAIN file_targets
            /\ last'.req.file_id \in DOMAIN files \ DOMAIN file_uploads )
          => LET app == Appended(connections_[fd], connections_'[fd])
                 offset == last'.req.offset
                 stored == disk[storage_path(last'.req.file_id)]
                 S == files[last'.req.file_id].file_size
             IN /\ Len(app) = 1
                /\ Len(stored) = S
                /\ IF offset < 0 \/ offset >= S
                     THEN /\ app[1].type = "FileDownloadRequest"
                          /\ app[1].meta.status = "error"
                          /\ app[1].meta.code = "DOWNLOAD_FAILED"
                     ELSE /\ app[1].type = "FileDownloadChunk"
                          /\ app[1].meta.offset = offset
                          /\ Len(app[1].binary) >= 1
                          /\ Len(app[1].binary) <= config.file_chunk_size
                          /\ app[1].binary
                               = SubSeq(stored, offset + 1, offset + Len(app[1].binary))
                          /\ app[1].meta.done <=> offset + Len(app[1].binary) >= S]_vars
  /\ [](LET task == client.download
        IN (task.active /\ task.failed = "") =>
             LET stored == disk[storage_path(task.file_id)]
             IN /\ task.part = SubSeq(stored, 1, task.next_offset)
                /\ task.done <=> task.next_offset >= Len(stored)
                /\ task.requests
                     = Requests(task.next_offset, task.start, config.file_chunk_size)
                /\ task.done =>
                     /\ task.part = stored
                     /\ task.requests
                          = Requests(Len(stored), task.start, config.file_chunk_size))
  /\ [](client.download.failed \in {"", "login required", "no permission to download"})

\* C32 witness: bob's client began at offset 0 and has the whole file of
\* three bytes after two requests for chunks of two bytes.
ChunkedDownloadWitness ==
  /\ client.download.done
  /\ client.download.start = 0
  /\ client.download.requests = 2
  /\ config.file_chunk_size = 2
  /\ client.download.part = disk[storage_path("f0")]
  /\ Len(client.download.part) = 3
  /\ last.op = "FileDownloadRequest" /\ LoggedInAs(last.fd, "bob")

\* The roster of a frame: online_users of an AuthOk, users of a
\* UserListUpdate.
Roster(frame) ==
  IF frame.type = "AuthOk" THEN frame.meta.online_users ELSE frame.meta.users

\* The frames that carry a roster: the AuthOk of a login and the
\* UserListUpdate.
HasRoster(frame) ==
  \/ frame.type = "UserListUpdate"
  \/ frame.type = "AuthOk" /\ "online_users" \in DOMAIN frame.meta

\* C33: every roster the server emits, in an AuthOk or in a UserListUpdate,
\* lists exactly the (user_id, nickname) of the sessions that are logged in
\* at that moment, each user once.
RosterContent ==
  [][\A fd \in DOMAIN connections_ \cap DOMAIN connections_' :
       LET app == Appended(connections_[fd], connections_'[fd])
       IN \A k \in DOMAIN app :
            HasRoster(app[k]) =>
              LET roster == Roster(app[k])
              IN /\ Range(roster)
                      = {[user_id |-> sessions_'[f].user_id, nickname |-> sessions_'[f].nickname] :
                           f \in {g \in DOMAIN sessions_' : sessions_'[g].logged_in}}
                 /\ \A i, j \in DOMAIN roster :
                      roster[i].user_id = roster[j].user_id => i = j]_vars

\* C34: a MessageDeliver of a message is enqueued only on a connection whose
\* session is at that moment logged in as a user of the message's target
\* set, a FileDone notice with request_id 0 only on a connection logged in as
\* a user of the file's target set, and a target row is marked delivered only
\* when the packet went to a connection of that user.
DeliveriesReachTargets ==
  [][/\ \A fd \in DOMAIN connections_ \cap DOMAIN connections_' :
          LET app == Appended(connections_[fd], connections_'[fd])
          IN \A k \in DOMAIN app :
               /\ app[k].type = "MessageDeliver" =>
                    /\ sessions_'[fd].logged_in
                    /\ <<app[k].meta.message_id, sessions_'[fd].user_id>>
                         \in DOMAIN message_targets'
               /\ (app[k].type = "FileDone" /\ app[k].request_id = 0) =>
                    /\ sessions_'[fd].logged_in
                    /\ <<app[k].meta.file_id, sessions_'[fd].user_id>> \in DOMAIN file_targets'
     /\ \A key \in DOMAIN message_targets' :
          ( /\ message_targets'[key]
            /\ key \in DOMAIN message_targets => ~message_targets[key] ) =>
            \E fd \in DOMAIN connections_ \cap DOMAIN connections_' :
              /\ sessions_'[fd].logged_in /\ sessions_'[fd].user_id = key[2]
              /\ \E k \in DOMAIN Appended(connections_[fd], connections_'[fd]) :
                   LET frame == Appended(connections_[fd], connections_'[fd])[k]
                   IN frame.type = "MessageDeliver" /\ frame.meta.message_id = key[1]]_vars

\* C35: after disconnect(fd) no user_to_fd entry maps a user to fd, and a
\* user who is logged in on no connection is not rejected as already online.
DisconnectFreesUser ==
  [][/\ \A fd \in Fds :
          (last'.op = "disconnect" /\ last'.fd = fd /\ last' # last) =>
            \A u \in DOMAIN user_to_fd_' : user_to_fd_'[u] # fd
     /\ ( /\ last'.op = "AuthLogin" /\ last' # last
          /\ last'.code = "LOGIN_FAILED" /\ last'.message = "user already online" ) =>
          \E fd \in DOMAIN sessions_ : LoggedInAs(fd, last'.req.user_id)]_vars

\* The state of a file: none, Uploading while its file_uploads row is there,
\* Stored when the files row is there without it.
FileState(tbl, uploads, file_id) ==
  IF file_id \in DOMAIN uploads THEN "Uploading"
  ELSE IF file_id \in DOMAIN tbl THEN "Stored" ELSE "none"

\* C36: the state of a file moves only none -> Uploading -> Stored; once
\* the file_uploads row is gone nothing creates it again, resumeUpload,
\* appendChunk and finalizeUpload fail on a Stored file, and the files row and
\* the stored bytes do not change any more.
FileLifecycleMonotone ==
  /\ [][\A f \in Ids :
          LET before == FileState(files, file_uploads, f)
              after == FileState(files', file_uploads', f)
          IN /\ <<before, after>> \in {<<"none", "none">>, <<"none", "Uploading">>,
                                       <<"Uploading", "Uploading">>, <<"Uploading", "Stored">>,
                                       <<"Stored", "Stored">>}
             /\ before = "Stored" =>
                  /\ files'[f] = files[f]
                  /\ storage_path(f) \in DOMAIN disk /\ storage_path(f) \in DOMAIN disk'
                  /\ disk'[storage_path(f)] = disk[storage_path(f)]
                  /\ temp_path(f) \notin DOMAIN disk']_vars
  /\ [](\A f \in Ids :
          FileState(files, file_uploads, f) = "Stored" =>
            \A u \in Users :
              /\ ~resumeUpload(files, file_uploads, file_targets, disk, f, u).ok
              /\ ~finalizeUpload(files, file_uploads, file_targets, disk, f, u, "none").ok
              /\ \A offset \in 0..MaxFileSize : \A data \in {<<"x">>, <<"y">>, <<"x", "y">>} :
                   ~appendChunk(files, file_uploads, file_targets, disk, f, u,
                                offset, data, "none").ok)

\* C36 witness: a file is Stored and its uploader has just sent another
\* chunk for it, which was refused.
FileLifecycleWitness ==
  /\ last.op = "FileUploadChunk" /\ last.code = "UPLOAD_FAILED"
  /\ last.message = "upload not found"
  /\ FileState(files, file_uploads, last.req.file_id) = "Stored"
  /\ LoggedInAs(last.fd, files[last.req.file_id].uploader_id)

\* C37: an appendChunk by a caller who is not the uploader, at an offset
\* other than uploaded_size, or with offset + len(data) > file_size fails
\* and leaves uploaded_size and the temp file as they were, whether or not
\* the UPDATE would have failed; the FileUploadChunk that is refused so
\* leaves the temp file as it was.
RejectedChunksChangeNothing ==
  /\ [](\A f \in DOMAIN file_uploads \cap DOMAIN files : \A u \in Users :
          \A offset \in 0..(MaxFileSize + 1) :
            \A data \in {<<"x">>, <<"y">>, <<"x", "y">>, <<"x", "y", "x">>} :
              \A db_fail \in {"none", "update"} :
                LET out == appendChunk(files, file_uploads, file_targets, disk, f, u,
                                       offset, data, db_fail)
                IN ( \/ u # files[f].uploader_id
                     \/ offset # file_uploads[f].uploaded_size
                     \/ offset + Len(data) > files[f].file_size ) =>
                     /\ ~out.ok
                     /\ out.error \in {"uploader mismatch", "offset mismatch",
                                       "chunk exceeds file size"}
                     /\ out.file_uploads = file_uploads
                     /\ out.disk = disk
                     /\ out.files = files)
  /\ [][( /\ last'.op = "FileUploadChunk" /\ last' # last
          /\ last'.message \in {"uploader mismatch", "offset mismatch",
                                "chunk exceeds file size"} ) =>
          /\ disk' = disk
          /\ files' = files
          /\ last'.message # "offset mismatch" => file_uploads' = file_uploads]_vars

\* C37 witness: the uploader, whose first byte is in the temp file and in
\* uploaded_size, sent a chunk at offset 0 again and was refused.
RejectedChunksWitness ==
  /\ last.op = "FileUploadChunk" /\ last.message = "offset mismatch"
  /\ last.req.offset = 0
  /\ last.req.file_id \in DOMAIN file_uploads
  /\ LoggedInAs(last.fd, files[last.req.file_id].uploader_id)
  /\ file_uploads[last.req.file_id].uploaded_size = 1
  /\ disk[temp_path(last.req.file_id)] = <<"x">>

\* C38: under every interleaving of queueWrite and flushWrite, with send
\* taking any number of bytes before it blocks, the bytes handed to the
\* socket are the bytes queued, in order, without a gap or a repetition: a
\* prefix of the concatenation of all queued strings, with the rest of it
\* waiting in the buffer; hasPendingWrite() is true exactly when a queued
\* byte has not been sent.
WriteQueueFifo ==
  /\ [](/\ Len(connection.sent) <= Len(connection.queued)
        /\ connection.sent = SubSeq(connection.queued, 1, Len(connection.sent))
        /\ SubSeq(connection.write_buffer_, connection.write_offset_ + 1,
                  Len(connection.write_buffer_))
             = SubSeq(connection.queued, Len(connection.sent) + 1, Len(connection.queued))
        /\ hasPendingWrite(connection) <=> Len(connection.sent) < Len(connection.queued))
  /\ [][/\ IsPrefix(connection.sent, connection'.sent)
        /\ IsPrefix(connection.queued, connection'.queued)]_vars

\* C38 witness: a string was queued behind a string that was sent in part,
\* another flush took one more byte, and bytes of both strings still wait.
WriteQueueWitness ==
  /\ last.op = "flushWrite" /\ last.code = ""
  /\ Len(connection.queued) = 4
  /\ Len(connection.sent) = 2
  /\ connection.write_offset_ = 2
  /\ connection.sent = <<"x", "y">>
  /\ hasPendingWrite(connection)

\* The users with a membership row of a group.
MembersOf(gm, group_id) == {k[2] : k \in {m \in DOMAIN gm : m[1] = group_id}}

\* C39: a group MessageSend of a member gets target rows for exactly the
\* members of the group at that time except the sender, and fails with
\* NO_RECIPIENTS, storing nothing, when the sender is the only member; target
\* rows are created by the send of their message only, so a user who joins
\* later gets none, and a user who left or was kicked before has none.
GroupFanoutTargets ==
  [][/\ \A fd \in Fds :
          ( /\ last'.op = "MessageSend" /\ last'.fd = fd /\ last' # last
            /\ last'.req.json_ok /\ last'.req.conversation_type = "group"
            /\ ~notLoggedIn(sessions_, fd)
            /\ sessions_[fd].user_id \in MembersOf(group_members, last'.req.conversation_id) )
          => LET others == MembersOf(group_members, last'.req.conversation_id)
                             \ {sessions_[fd].user_id}
                 rows == DOMAIN message_targets' \ DOMAIN message_targets
             IN IF others = {}
                  THEN /\ last'.code = "NO_RECIPIENTS"
                       /\ messages' = messages /\ message_targets' = message_targets
                       /\ msg_seq' = msg_seq
                  ELSE /\ last'.code = "ok"
                       /\ DOMAIN messages' \ DOMAIN messages = {last'.info.message_id}
                       /\ rows = {<<last'.info.message_id, u>> : u \in others}
     /\ \A key \in DOMAIN message_targets' \ DOMAIN message_targets :
          /\ last'.op = "MessageSend" /\ last'.code = "ok"
          /\ key[1] = last'.info.message_id
          /\ key[1] \notin DOMAIN messages]_vars

\* C39 witness: carol joined the group after a message was sent to it, and
\* the message has a target row for a member of that time and none for her.
GroupFanoutWitness ==
  /\ last.op = "GroupJoin" /\ last.code = "ok" /\ LoggedInAs(last.fd, "carol")
  /\ "carol" \in MembersOf(group_members, "g0")
  /\ \E m \in DOMAIN messages :
       /\ messages[m].conversation_type = "group" /\ messages[m].conversation_id = "g0"
       /\ <<m, "carol">> \notin DOMAIN message_targets
       /\ \E u \in MembersOf(group_members, "g0") \ {messages[m].sender_id} :
            <<m, u>> \in DOMAIN message_targets

\* C40: the client never has a chunk refused for an offset mismatch, and
\* under fair scheduling the file it uploads is Stored in the end, also when
\* its connection is closed during the upload and it logs in again and calls
\* resumeTransfers.
UploadConverges ==
  /\ [][(last'.op = "FileUploadChunk" /\ last' # last)
          => last'.message # "offset mismatch"]_vars
  /\ <>(\E f \in DOMAIN files : FileState(files, file_uploads, f) = "Stored")

====
